---- MODULE Spec2Model ----
(***************************************************************************)
(* Stateful classification metrics of torchmetrics: negative predictive   *)
(* value (classification/negative_predictive_value.py) and                *)
(* sensitivity-at-specificity (classification/sensitivity_specificity.py).*)
(* A metric object is constructed once (Init), then update and compute are *)
(* called in any order.  Tensor values are exact rationals <<n, d>>.        *)
(***************************************************************************)
EXTENDS Integers, Sequences, FiniteSets, TLC

VARIABLES
    metric,            \* class of the constructed object
    task,              \* "binary" | "multiclass" | "multilabel"
    average,           \* self.average ("binary" for the binary class)
    multidim_average,  \* self.multidim_average
    top_k,             \* self.top_k
    tp, fp, tn, fn,    \* stat-score states: one row per sample group
    min_specificity,   \* self.min_specificity
    thresholds,        \* self.thresholds
    validate_args,     \* self.validate_args
    preds, target,     \* curve states: the list of the batches given to update
    confmat,           \* binned curve state: per threshold the 2x2 confusion counts
    ignore_index,      \* self.ignore_index
    observed,          \* history: the inputs of the update calls made so far, in call order
    world,             \* the process group: the running rank and the states of the ranks
    call,              \* the arguments of a task-wrapper call and the exception it raised
    ret                \* the value returned by the latest call

\* the attributes of a negative-predictive-value object, its states, and those of a
\* sensitivity-at-specificity object
npvConfig == <<task, average, multidim_average, top_k>>
statScores == <<tp, fp, tn, fn>>
sasConfig == <<min_specificity, thresholds, validate_args, ignore_index>>
curveState == <<preds, target, confmat>>
environment == <<world, call>>

vars == <<metric, npvConfig, statScores, sasConfig, curveState, observed, environment, ret>>

\* ------------------------------------------------------------- bounds
\* number of classes / labels of the multiclass and multilabel objects
NumClasses == 2
\* total number of observations (elements) all update calls may accumulate
MaxObs == 3

\* default of the top_k argument
DefaultTopK == 1

\* ---------------------------------------------------------- rationals
RECURSIVE GCD(_, _)
GCD(a, b) == IF b = 0 THEN a ELSE GCD(b, a % b)

Abs(x) == IF x < 0 THEN -x ELSE x

\* the float nan: what 0/0 evaluates to
NaN == <<0, 0>>

\* the float inf
Inf == <<1, 0>>

\* n/d in lowest terms with a positive denominator
Frac(n, d) ==
    IF d = 0 THEN NaN
    ELSE LET g == GCD(Abs(n), Abs(d))
             s == IF d < 0 THEN -1 ELSE 1
         IN  <<(s * n) \div g, (s * d) \div g>>

Zero == <<0, 1>>
One == <<1, 1>>
FromInt(n) == <<n, 1>>

IsNaN(q) == q = NaN

Finite(q) == q[2] # 0

QAdd(a, b) ==
    IF ~Finite(a) \/ ~Finite(b) THEN NaN
    ELSE Frac(a[1] * b[2] + b[1] * a[2], a[2] * b[2])

QSub(a, b) ==
    IF ~Finite(a) \/ ~Finite(b) THEN NaN
    ELSE Frac(a[1] * b[2] - b[1] * a[2], a[2] * b[2])

QMul(a, b) ==
    IF ~Finite(a) \/ ~Finite(b) THEN NaN
    ELSE Frac(a[1] * b[1], a[2] * b[2])

\* tensor true division num / denom
QDiv(a, b) ==
    IF ~Finite(a) \/ ~Finite(b) THEN NaN
    ELSE Frac(a[1] * b[2], a[2] * b[1])

\* comparisons of finite numbers; any comparison with nan is false
QLeq(a, b) == Finite(a) /\ Finite(b) /\ a[1] * b[2] <= b[1] * a[2]

QLess(a, b) == Finite(a) /\ Finite(b) /\ a[1] * b[2] < b[1] * a[2]

\* sum of a sequence of rationals (tensor.sum over the last axis)
RECURSIVE QSum(_)
QSum(s) == IF s = <<>> THEN Zero ELSE QAdd(s[1], QSum(Tail(s)))

\* sum of a sequence of integers
RECURSIVE ISum(_)
ISum(s) == IF s = <<>> THEN 0 ELSE s[1] + ISum(Tail(s))

\* ------------------------------------------------- stat-score states
Tasks == {"binary", "multiclass", "multilabel"}

\* class / label indices of a task (python's 0..C-1 are 1..C here)
Classes(t) == IF t = "binary" THEN 1..1 ELSE 1..NumClasses

\* the averaging modes a class accepts
Averages(t) ==
    IF t = "binary" THEN {"binary"} ELSE {"micro", "macro", "weighted", "none"}

\* ignore_index=None, and ignore_index=v
IgnoreNone == [is_none |-> TRUE, value |-> 0]

IgnoreValue(v) == [is_none |-> FALSE, value |-> v]

\* the target value standing for ignore_index (class indices are shifted by one here)
IgnoredTarget(tk) == IF tk = "multiclass" THEN ignore_index.value + 1 ELSE ignore_index.value

\* the true labels an observation may carry: the valid ones and, when set, ignore_index
TargetValues(tk) ==
    (IF tk = "multiclass" THEN Classes(tk) ELSE {0, 1})
        \cup (IF ignore_index.is_none THEN {} ELSE {IgnoredTarget(tk)})

\* one formatted observation: the predicted and the true label(s) of one element
Elements(tk) ==
    CASE tk = "binary" -> [p : {0, 1}, t : TargetValues(tk)]
      [] tk = "multiclass" -> [p : Classes(tk), t : TargetValues(tk)]
      [] OTHER -> [p : [Classes(tk) -> {0, 1}], t : [Classes(tk) -> TargetValues(tk)]]

\* the true label of element e for class c is ignore_index
Ignored(e, c) ==
    /\ ~ignore_index.is_none
    /\ (IF task = "multilabel" THEN e.t[c] ELSE e.t) = IgnoredTarget(task)

\* is class c predicted for / the true label of element e (one-vs-rest for multiclass)
PredPos(e, c) ==
    CASE task = "binary" -> e.p = 1
      [] task = "multiclass" -> e.p = c
      [] OTHER -> e.p[c] = 1

TargetPos(e, c) ==
    CASE task = "binary" -> e.t = 1
      [] task = "multiclass" -> e.t = c
      [] OTHER -> e.t[c] = 1

\* number of elements of a sample with the given predicted / true indicator for class c,
\* the elements carrying ignore_index left out
Count(sample, c, P, T) ==
    Cardinality({i \in DOMAIN sample :
        /\ ~Ignored(sample[i], c)
        /\ PredPos(sample[i], c) = P
        /\ TargetPos(sample[i], c) = T})

\* per-class counts of one sample (its extra dimensions summed)
StatRow(sample, P, T) == [c \in Classes(task) |-> Count(sample, c, P, T)]

\* number of elements accumulated so far
Accumulated ==
    ISum([i \in DOMAIN tp |-> tp[i][1] + fp[i][1] + tn[i][1] + fn[i][1]])

\* the samples an update call may bring: 1 sample of 1..k elements
Samples(k) == UNION {[1..e -> Elements(task)] : e \in 1..k}

\* a single process, and an object built by calling its class directly
SingleProcess == [rank |-> 0, synced |-> FALSE, cache |-> <<>>, states |-> <<>>]

NoCall == [cls |-> "none"]

Standalone == world = SingleProcess /\ call = NoCall

NoValue == [op |-> "init", shape |-> <<>>, v |-> <<>>]

\* thresholds=None: the non-binned curve state
ThresholdsNone == [is_none |-> TRUE, values |-> <<>>]

\* _create_state: zeros under "global", an empty list under "samplewise"
InitialState(t, mda) ==
    IF mda = "samplewise" THEN <<>> ELSE <<[c \in Classes(t) |-> 0]>>

\* mutant: the counts of the batch assigned to the state instead of added to it
Mut_AddState_Overwrite(state, row) ==
    IF multidim_average = "samplewise"
    THEN Append(state, row)
    ELSE <<row>>

\* update(preds, target) followed by _update_state: appended under "samplewise", added otherwise
AddState(state, row) ==
    IF multidim_average = "samplewise"
    THEN Append(state, row)
    ELSE <<[c \in Classes(task) |-> state[1][c] + row[c]]>>

update(sample) ==
    /\ metric = "NegativePredictiveValue"
    /\ tp' = AddState(tp, StatRow(sample, TRUE, TRUE))
    /\ fp' = AddState(fp, StatRow(sample, TRUE, FALSE))
    /\ tn' = AddState(tn, StatRow(sample, FALSE, FALSE))
    /\ fn' = AddState(fn, StatRow(sample, FALSE, TRUE))
    /\ observed' = Append(observed, sample)
    /\ ret' = [op |-> "update", shape |-> <<>>, v |-> <<>>]
    /\ UNCHANGED <<metric, npvConfig, sasConfig, curveState, environment>>

\* _final_state: the accumulated counts, one row per sample group (a single row under "global")
_final_state(state) == state

\* ------------------------------------------- negative predictive value
\* num / denom where denom != 0, else 0
_safe_divide(num, denom) == IF denom # Zero THEN QDiv(num, denom) ELSE Zero

\* shape of the returned tensor: (), (C,), (N,) or (N, C)
ResultShape(avg, mda, n, c) ==
    (IF mda = "samplewise" THEN <<n>> ELSE <<>>)
        \o (IF avg = "none" THEN <<c>> ELSE <<>>)

\* mutant: TN / FN, the true negatives left out of the denominator
Mut_ScoreRow_FnDenominator(tn_row, fn_row) ==
    [c \in DOMAIN tn_row |-> _safe_divide(FromInt(tn_row[c]), FromInt(fn_row[c]))]

\* elementwise TN / (TN + FN) of one row of counts
ScoreRow(tn_row, fn_row) ==
    [c \in DOMAIN tn_row |-> _safe_divide(FromInt(tn_row[c]), FromInt(tn_row[c] + fn_row[c]))]

\* weights of the classes of one row: the support TP + FN under "weighted", ones under "macro"
WeightRow(avg, tp_row, fn_row) ==
    [c \in DOMAIN tp_row |-> IF avg = "weighted" THEN FromInt(tp_row[c] + fn_row[c]) ELSE One]

\* (weights * score / weights.sum(-1)).sum(-1), "none" leaving the scores as they are
_adjust_weights_safe_divide(score, avg, multilabel, tp_row, fp_row, fn_row, k) ==
    IF avg = "none" THEN score
    ELSE LET w == WeightRow(avg, tp_row, fn_row)
             total == QSum(w)
         IN  <<QSum([c \in DOMAIN score |-> _safe_divide(QMul(w[c], score[c]), total)])>>

\* the reduction of the four count tensors to the metric value
_negative_predictive_value_reduce(TP, FP, TN, FN, avg, mda, multilabel, k) ==
    [shape |-> ResultShape(avg, mda, Len(TN), NumClasses),
     v |-> [i \in DOMAIN TN |->
              IF avg = "binary" THEN ScoreRow(TN[i], FN[i])
              ELSE IF avg = "micro"
              THEN <<_safe_divide(FromInt(ISum(TN[i])), FromInt(ISum(TN[i]) + ISum(FN[i])))>>
              ELSE _adjust_weights_safe_divide(ScoreRow(TN[i], FN[i]), avg, multilabel,
                                               TP[i], FP[i], FN[i], k)]]

\* mutant: TN and FN handed over in each other's place
Mut_BinaryCompute_SwapTnFn ==
    _negative_predictive_value_reduce(
        _final_state(tp), _final_state(fp), _final_state(fn), _final_state(tn),
        "binary", multidim_average, FALSE, DefaultTopK)

\* BinaryNegativePredictiveValue.compute
BinaryNegativePredictiveValue_compute ==
    _negative_predictive_value_reduce(
        _final_state(tp), _final_state(fp), _final_state(tn), _final_state(fn),
        "binary", multidim_average, FALSE, DefaultTopK)

\* mutant: the macro reduction whatever self.average is
Mut_MulticlassCompute_MacroAlways ==
    _negative_predictive_value_reduce(
        _final_state(tp), _final_state(fp), _final_state(tn), _final_state(fn),
        "macro", multidim_average, FALSE, top_k)

\* mutant: TP and FP handed over in each other's place
Mut_MulticlassCompute_SwapTpFp ==
    _negative_predictive_value_reduce(
        _final_state(fp), _final_state(tp), _final_state(tn), _final_state(fn),
        average, multidim_average, FALSE, top_k)

\* mutant: multidim_average left at its default "global"
Mut_MulticlassCompute_GlobalAlways ==
    _negative_predictive_value_reduce(
        _final_state(tp), _final_state(fp), _final_state(tn), _final_state(fn),
        average, "global", FALSE, top_k)

\* MulticlassNegativePredictiveValue.compute
MulticlassNegativePredictiveValue_compute ==
    _negative_predictive_value_reduce(
        _final_state(tp), _final_state(fp), _final_state(tn), _final_state(fn),
        average, multidim_average, FALSE, top_k)

\* mutant: TP handed over in the place of TN (the precision reduction's arguments)
Mut_MultilabelCompute_TpForTn ==
    _negative_predictive_value_reduce(
        _final_state(tp), _final_state(fp), _final_state(tp), _final_state(fn),
        average, multidim_average, TRUE, DefaultTopK)

\* mutant: the wrapper's default average "micro" whatever self.average is
Mut_MultilabelCompute_MicroAlways ==
    _negative_predictive_value_reduce(
        _final_state(tp), _final_state(fp), _final_state(tn), _final_state(fn),
        "micro", multidim_average, TRUE, DefaultTopK)

\* MultilabelNegativePredictiveValue.compute
MultilabelNegativePredictiveValue_compute ==
    _negative_predictive_value_reduce(
        _final_state(tp), _final_state(fp), _final_state(tn), _final_state(fn),
        average, multidim_average, TRUE, DefaultTopK)

\* metric.compute(): the call returns the reduced value and leaves the state alone; under
\* "samplewise" it follows at least one update
Returns(value) ==
    /\ tn # <<>>
    /\ ret' = [op |-> "compute", shape |-> value.shape, v |-> value.v]
    /\ UNCHANGED <<metric, npvConfig, statScores, sasConfig, curveState, observed, environment>>

compute_binary ==
    /\ metric = "NegativePredictiveValue"
    /\ task = "binary"
    /\ Returns(BinaryNegativePredictiveValue_compute)

compute_multiclass ==
    /\ metric = "NegativePredictiveValue"
    /\ task = "multiclass"
    /\ Returns(MulticlassNegativePredictiveValue_compute)

compute_multilabel ==
    /\ metric = "NegativePredictiveValue"
    /\ task = "multilabel"
    /\ Returns(MultilabelNegativePredictiveValue_compute)

\* NegativePredictiveValue(task, ...): the object the task wrapper returns
InitNPV ==
    /\ metric = "NegativePredictiveValue"
    /\ task \in Tasks
    /\ average \in Averages(task)
    /\ multidim_average \in {"global", "samplewise"}
    /\ top_k = DefaultTopK
    /\ tp = InitialState(task, multidim_average)
    /\ fp = InitialState(task, multidim_average)
    /\ tn = InitialState(task, multidim_average)
    /\ fn = InitialState(task, multidim_average)
    /\ min_specificity = Zero /\ thresholds = ThresholdsNone /\ validate_args = TRUE
    /\ ignore_index = IgnoreNone
    /\ preds = <<>> /\ target = <<>> /\ confmat = <<>>
    /\ observed = <<>>
    /\ Standalone
    /\ ret = NoValue

NextNPV ==
    \/ \E sample \in Samples(MaxObs - Accumulated) : update(sample)
    \/ compute_binary
    \/ compute_multiclass
    \/ compute_multilabel

SpecNPV == InitNPV /\ [][NextNPV]_vars

\* -------------------------------------------- sensitivity at specificity
\* scores are the probabilities k / (ScoreLevels + 1), k in 1..ScoreLevels, all within (0, 1)
ScoreLevels == 3
\* min_specificity is one of k / MinSpecSteps, k in 0..MinSpecSteps + 1
MinSpecSteps == 2

\* observations all update calls may bring to a multiclass or multilabel curve object
MaxRows == 2

\* the threshold returned when no point of the curve qualifies (1e6)
SentinelThreshold == 1000000

ScoreOf(k) == Frac(k, ScoreLevels + 1)

\* one observation of a binary batch: its score and its true label
CurveElements == [p : 1..ScoreLevels, t : {0, 1}]

\* the batches an update call may bring: 1..k observations
Batches(k) == UNION {[1..e -> CurveElements] : e \in 1..k}

\* dim_zero_cat: the batches of a list state in one sequence
RECURSIVE _cat(_)
_cat(batches) == IF batches = <<>> THEN <<>> ELSE batches[1] \o _cat(Tail(batches))

\* number of observations stored so far
Stored == Len(_cat(preds))

RECURSIVE Mut_Descending_Ascending(_)

\* mutant: the distinct scores lowest first
Mut_Descending_Ascending(S) ==
    IF S = {} THEN <<>>
    ELSE LET m == CHOOSE x \in S : \A y \in S : x <= y
         IN  <<m>> \o Mut_Descending_Ascending(S \ {m})

\* the distinct values of a sequence of scores, highest first
RECURSIVE Descending(_)
Descending(S) ==
    IF S = {} THEN <<>>
    ELSE LET m == CHOOSE x \in S : \A y \in S : y <= x
         IN  <<m>> \o Descending(S \ {m})

DistinctScores(predictions) == Descending({predictions[i] : i \in DOMAIN predictions})

\* number of observations with the given label scored at least thr
CountAtLeast(predictions, targets, thr, label) ==
    Cardinality({i \in DOMAIN predictions : predictions[i] >= thr /\ targets[i] = label})

\* sklearn.metrics.roc_curve(targets, predictions, pos_label=1.0, drop_intermediate=False):
\* a first point (0, 0) at threshold inf, then one point per distinct score, highest first;
\* a rate whose class is empty is nan throughout
sk_roc_curve(targets, predictions) ==
    LET th == DistinctScores(predictions)
        tps == <<0>> \o [j \in 1..Len(th) |-> CountAtLeast(predictions, targets, th[j], 1)]
        fps == <<0>> \o [j \in 1..Len(th) |-> CountAtLeast(predictions, targets, th[j], 0)]
        P == tps[Len(tps)]
        N == fps[Len(fps)]
    IN  [fpr |-> [j \in DOMAIN fps |-> IF N <= 0 THEN NaN ELSE Frac(fps[j], N)],
         tpr |-> [j \in DOMAIN tps |-> IF P <= 0 THEN NaN ELSE Frac(tps[j], P)],
         thresholds |-> <<Inf>> \o [j \in 1..Len(th) |-> ScoreOf(th[j])]]

\* specificity = 1 - fpr
_convert_fpr_to_specificity(fpr) == [j \in DOMAIN fpr |-> QSub(One, fpr[j])]

\* x[mask]: the entries of x where the boolean mask holds, in order
RECURSIVE Masked(_, _)
Masked(x, mask) ==
    IF x = <<>> THEN <<>>
    ELSE (IF mask[1] THEN <<x[1]>> ELSE <<>>) \o Masked(Tail(x), Tail(mask))

\* mutant: the last index of a largest entry
Mut_ArgMax_Last(x) ==
    CHOOSE i \in DOMAIN x :
        /\ \A j \in DOMAIN x : QLeq(x[j], x[i])
        /\ \A j \in (i + 1)..Len(x) : QLess(x[j], x[i])

\* np.argmax: the first index of a largest entry
ArgMax(x) ==
    CHOOSE i \in DOMAIN x :
        /\ \A j \in DOMAIN x : QLeq(x[j], x[i])
        /\ \A j \in 1..(i - 1) : QLess(x[j], x[i])

\* sklearn's curve as the reference repairs it: nan sensitivities are 0, the threshold inf
\* is 1, an all-nan fpr is all 0; specificity = 1 - fpr
ReferenceCurve(predictions, targets) ==
    LET roc == sk_roc_curve(targets, predictions)
        thr == [j \in DOMAIN roc.thresholds |->
                   IF roc.thresholds[j] = Inf THEN One ELSE roc.thresholds[j]]
        fpr == IF \A j \in DOMAIN roc.fpr : IsNaN(roc.fpr[j])
               THEN [j \in DOMAIN thr |-> Zero]
               ELSE roc.fpr
    IN  [sensitivity |-> [j \in DOMAIN roc.tpr |-> IF IsNaN(roc.tpr[j]) THEN Zero ELSE roc.tpr[j]],
         specificity |-> _convert_fpr_to_specificity(fpr),
         thresholds |-> thr]

\* mutant: no test for an empty selection, np.argmax of an empty array raising (nan here)
Mut_ReferencePick_NoEmptyCheck(sensitivity0, thresholds0, indices) ==
    LET sensitivity == Masked(sensitivity0, indices)
        thresholds1 == Masked(thresholds0, indices)
    IN  IF sensitivity = <<>> THEN <<NaN, NaN>>
        ELSE <<sensitivity[ArgMax(sensitivity)], thresholds1[ArgMax(sensitivity)]>>

\* (0, 1e6) when the mask selects nothing, else the selected point of the first largest sensitivity
ReferencePick(sensitivity0, thresholds0, indices) ==
    IF ~(\E j \in DOMAIN indices : indices[j])
    THEN <<Zero, FromInt(SentinelThreshold)>>
    ELSE LET sensitivity == Masked(sensitivity0, indices)
             thresholds1 == Masked(thresholds0, indices)
             idx == ArgMax(sensitivity)
         IN  <<sensitivity[idx], thresholds1[idx]>>

\* mutant: the bound taken as exclusive
Mut_Reference_StrictBound(predictions, targets, min_spec) ==
    LET c == ReferenceCurve(predictions, targets)
    IN  ReferencePick(c.sensitivity, c.thresholds,
                      [j \in DOMAIN c.specificity |-> QLess(min_spec, c.specificity[j])])

\* mutant: the points whose specificity is at most the bound selected
Mut_Reference_BelowBound(predictions, targets, min_spec) ==
    LET c == ReferenceCurve(predictions, targets)
    IN  ReferencePick(c.sensitivity, c.thresholds,
                      [j \in DOMAIN c.specificity |-> QLeq(c.specificity[j], min_spec)])

\* the reference of the tests: (max_spec, best_threshold) from sklearn's curve
_sensitivity_at_specificity_x_multilabel(predictions, targets, min_spec) ==
    LET c == ReferenceCurve(predictions, targets)
    IN  ReferencePick(c.sensitivity, c.thresholds,
                      [j \in DOMAIN c.specificity |-> QLeq(min_spec, c.specificity[j])])

\* remove_ignore_index: the entries of x at the observations whose target is not ignore_index
remove_ignore_index(x, all_target, ignored) ==
    Masked(x, [i \in DOMAIN all_target |-> all_target[i] # ignored])

\* mutant: the observations carrying ignore_index are left in
Mut_ReferenceBinary_KeepIgnored(all_preds, all_target, min_spec, ign) ==
    _sensitivity_at_specificity_x_multilabel(all_preds, all_target, min_spec)

\* _reference_sklearn_sensitivity_at_specificity_binary, scores in (0, 1)
_reference_sklearn_sensitivity_at_specificity_binary(all_preds, all_target, min_spec, ign) ==
    IF ign.is_none
    THEN _sensitivity_at_specificity_x_multilabel(all_preds, all_target, min_spec)
    ELSE _sensitivity_at_specificity_x_multilabel(
             remove_ignore_index(all_preds, all_target, ign.value),
             remove_ignore_index(all_target, all_target, ign.value), min_spec)

\* thresholds=n, an int: torch.linspace(0, 1, n)
Linspace(n) == [j \in 1..n |-> Frac(j - 1, n - 1)]

\* thresholds given as an int, a list or a tensor: the binned curve state over these values
Binned(values) == [is_none |-> FALSE, values |-> values]

\* one observation of a batch: its score(s) and its true label(s)
Observations(tk) ==
    CASE tk = "binary" -> [p : 1..ScoreLevels, t : TargetValues(tk)]
      [] tk = "multiclass" -> [p : [Classes(tk) -> 1..ScoreLevels], t : TargetValues(tk)]
      [] OTHER -> [p : [Classes(tk) -> 1..ScoreLevels], t : [Classes(tk) -> TargetValues(tk)]]

\* the batches an update call may bring to an object of task tk: 1..k observations
BatchesOf(tk, k) == UNION {[1..e -> Observations(tk)] : e \in 1..k}

\* _binary_precision_recall_curve_format / _multiclass_precision_recall_curve_format: the
\* observations whose target is ignore_index are dropped; multilabel targets are kept as given
Formatted(batch) ==
    IF ignore_index.is_none \/ task = "multilabel" THEN batch
    ELSE Masked(batch, [i \in DOMAIN batch |-> batch[i].t # IgnoredTarget(task)])

\* column c of multiclass / multilabel scores, the one-vs-rest indicator of class c, and
\* column c of multilabel targets
Column(predictions, c) == [i \in DOMAIN predictions |-> predictions[i][c]]

OneVsRest(targets, c) == [i \in DOMAIN targets |-> IF targets[i] = c THEN 1 ELSE 0]

\* the scores and targets of class / label c as a binary problem
BinaryView(tk, predictions, targets, c) ==
    CASE tk = "binary" -> <<predictions, targets>>
      [] tk = "multiclass" -> <<Column(predictions, c), OneVsRest(targets, c)>>
      [] OTHER -> <<Column(predictions, c), Column(targets, c)>>

\* mutant: the indicator of the first class used for every class
Mut_ReferenceMulticlass_FirstClass(all_preds, all_target, min_spec, ign) ==
    LET res == [i \in 1..NumClasses |->
                   _sensitivity_at_specificity_x_multilabel(
                       Column(all_preds, i), OneVsRest(all_target, 1), min_spec)]
    IN  <<[i \in 1..NumClasses |-> res[i][1]], [i \in 1..NumClasses |-> res[i][2]]>>

\* _reference_sklearn_sensitivity_at_specificity_multiclass, scores in (0, 1): per class i the
\* binary reference on column i against target == i
_reference_sklearn_sensitivity_at_specificity_multiclass(all_preds, all_target, min_spec, ign) ==
    LET kept_preds == IF ign.is_none THEN all_preds
                      ELSE remove_ignore_index(all_preds, all_target, ign.value + 1)
        kept_target == IF ign.is_none THEN all_target
                       ELSE remove_ignore_index(all_target, all_target, ign.value + 1)
        res == [i \in 1..NumClasses |->
                   _sensitivity_at_specificity_x_multilabel(
                       Column(kept_preds, i), OneVsRest(kept_target, i), min_spec)]
    IN  <<[i \in 1..NumClasses |-> res[i][1]], [i \in 1..NumClasses |-> res[i][2]]>>

\* _reference_sklearn_sensitivity_at_specificity_multilabel: per label i the binary
\* reference on preds[:, i], target[:, i]
_reference_sklearn_sensitivity_at_specificity_multilabel(all_preds, all_target, min_spec, ign) ==
    LET res == [i \in 1..NumClasses |->
                   _reference_sklearn_sensitivity_at_specificity_binary(
                       Column(all_preds, i), Column(all_target, i), min_spec, ign)]
    IN  <<[i \in 1..NumClasses |-> res[i][1]], [i \in 1..NumClasses |-> res[i][2]]>>

\* the 2x2 confusion counts [target][pred] of binary scores at one threshold value
ConfusionAt(predictions, targets, value) ==
    [tg \in 1..2 |-> [pr \in 1..2 |->
        Cardinality({i \in DOMAIN predictions :
            /\ targets[i] = tg - 1
            /\ QLeq(value, ScoreOf(predictions[i])) = (pr = 2)})]]

\* _binary_precision_recall_curve_update, binned: the counts of a batch per threshold
\* (and per class / label)
BinCounts(tk, predictions, targets, thr) ==
    [j \in DOMAIN thr.values |->
        IF tk = "binary" THEN ConfusionAt(predictions, targets, thr.values[j])
        ELSE [c \in Classes(tk) |->
                 LET view == BinaryView(tk, predictions, targets, c)
                 IN  ConfusionAt(view[1], view[2], thr.values[j])]]

AddCells(a, b) == [tg \in 1..2 |-> [pr \in 1..2 |-> a[tg][pr] + b[tg][pr]]]

\* confmat += counts of the batch
AddConfmat(tk, a, b) ==
    [j \in DOMAIN a |->
        IF tk = "binary" THEN AddCells(a[j], b[j])
        ELSE [c \in Classes(tk) |-> AddCells(a[j][c], b[j][c])]]

\* the state a binned object starts from: zeros of shape (T, 2, 2) or (T, C, 2, 2)
InitialConfmat(tk, thr) == BinCounts(tk, <<>>, <<>>, thr)

\* the curve the metric scans. Non-binned: the point (0, 0) at threshold 1, then one point per
\* distinct score, highest first. Binned: one point per threshold value, highest first, from
\* the confusion counts. A rate whose class is empty is 0 throughout
_binary_roc_compute(state, thr) ==
    IF thr.is_none
    THEN LET predictions == state[1]
             targets == state[2]
             th == DistinctScores(predictions)
             P == Cardinality({i \in DOMAIN targets : targets[i] = 1})
             N == Cardinality({i \in DOMAIN targets : targets[i] = 0})
         IN  [fpr |-> <<Zero>> \o [j \in 1..Len(th) |->
                          _safe_divide(FromInt(CountAtLeast(predictions, targets, th[j], 0)), FromInt(N))],
              tpr |-> <<Zero>> \o [j \in 1..Len(th) |->
                          _safe_divide(FromInt(CountAtLeast(predictions, targets, th[j], 1)), FromInt(P))],
              thresholds |-> <<One>> \o [j \in 1..Len(th) |-> ScoreOf(th[j])]]
    ELSE LET T == Len(thr.values)
             cell(j) == state[T + 1 - j]
         IN  [fpr |-> [j \in 1..T |->
                          _safe_divide(FromInt(cell(j)[1][2]), FromInt(cell(j)[1][2] + cell(j)[1][1]))],
              tpr |-> [j \in 1..T |->
                          _safe_divide(FromInt(cell(j)[2][2]), FromInt(cell(j)[2][2] + cell(j)[2][1]))],
              thresholds |-> [j \in 1..T |-> thr.values[T + 1 - j]]]

\* the points of a curve whose specificity meets the bound
Qualifying(specificity, min_spec) ==
    {j \in DOMAIN specificity : QLeq(min_spec, specificity[j])}

\* the search: (0, sentinel) when no point qualifies, else the first qualifying point of
\* maximum sensitivity
_sensitivity_at_specificity(sensitivity, specificity, thr, min_spec) ==
    LET Q == Qualifying(specificity, min_spec)
    IN  IF Q = {} THEN <<Zero, FromInt(SentinelThreshold)>>
        ELSE LET best == CHOOSE i \in Q :
                             \A j \in Q : \/ QLess(sensitivity[j], sensitivity[i])
                                          \/ (sensitivity[j] = sensitivity[i] /\ i <= j)
             IN  <<sensitivity[best], thr[best]>>

_binary_sensitivity_at_specificity_compute(state, thr, min_spec) ==
    LET roc == _binary_roc_compute(state, thr)
    IN  _sensitivity_at_specificity(roc.tpr, _convert_fpr_to_specificity(roc.fpr),
                                    roc.thresholds, min_spec)

\* the state of class c alone: its scores against its one-vs-rest targets, or its confusion counts
ClassState(tk, state, thr, c) ==
    IF thr.is_none THEN BinaryView(tk, state[1], state[2], c)
    ELSE [j \in DOMAIN state |-> state[j][c]]

\* one-vs-rest: the search on the curve of every class; the pair of the per-class sensitivities
\* and thresholds
_multiclass_sensitivity_at_specificity_compute(state, num_classes, thr, min_spec) ==
    LET res == [c \in 1..num_classes |->
                   _binary_sensitivity_at_specificity_compute(
                       ClassState("multiclass", state, thr, c), thr, min_spec)]
    IN  <<[c \in 1..num_classes |-> res[c][1]], [c \in 1..num_classes |-> res[c][2]]>>

\* the non-binned state of label c without the observations whose target is ignore_index
LabelState(state, thr, ign, c) ==
    LET view == ClassState("multilabel", state, thr, c)
    IN  IF thr.is_none /\ ~ign.is_none
        THEN LET keep == [i \in DOMAIN view[2] |-> view[2][i] # ign.value]
             IN  <<Masked(view[1], keep), Masked(view[2], keep)>>
        ELSE view

\* per label: the search on the curve of every label
_multilabel_sensitivity_at_specificity_compute(state, num_labels, thr, ign, min_spec) ==
    LET res == [c \in 1..num_labels |->
                   _binary_sensitivity_at_specificity_compute(
                       LabelState(state, thr, ign, c), thr, min_spec)]
    IN  <<[c \in 1..num_labels |-> res[c][1]], [c \in 1..num_labels |-> res[c][2]]>>

\* mutant: the latest batch alone in the place of the concatenated list states
Mut_SasCompute_LastBatchOnly ==
    LET state == <<preds[Len(preds)], target[Len(target)]>>
    IN  _binary_sensitivity_at_specificity_compute(state, thresholds, min_specificity)

\* mutant: the first batch alone in the place of the concatenated list states
Mut_SasCompute_FirstBatchOnly ==
    LET state == IF thresholds.is_none THEN <<preds[1], target[1]>> ELSE confmat
    IN  _binary_sensitivity_at_specificity_compute(state, thresholds, min_specificity)

\* mutant: min_specificity not handed over, the bound left at 0
Mut_SasCompute_NoBound ==
    LET state == IF thresholds.is_none THEN <<_cat(preds), _cat(target)>> ELSE confmat
    IN  _binary_sensitivity_at_specificity_compute(state, thresholds, Zero)

\* BinarySensitivityAtSpecificity.compute
BinarySensitivityAtSpecificity_compute ==
    LET state == IF thresholds.is_none THEN <<_cat(preds), _cat(target)>> ELSE confmat
    IN  _binary_sensitivity_at_specificity_compute(state, thresholds, min_specificity)

\* MulticlassSensitivityAtSpecificity.compute
MulticlassSensitivityAtSpecificity_compute ==
    LET state == IF thresholds.is_none THEN <<_cat(preds), _cat(target)>> ELSE confmat
    IN  _multiclass_sensitivity_at_specificity_compute(
            state, NumClasses, thresholds, min_specificity)

\* mutant: ignore_index not handed over to the functional compute
Mut_MultilabelSasCompute_NoIgnore ==
    LET state == IF thresholds.is_none THEN <<_cat(preds), _cat(target)>> ELSE confmat
    IN  _multilabel_sensitivity_at_specificity_compute(
            state, NumClasses, thresholds, IgnoreNone, min_specificity)

\* MultilabelSensitivityAtSpecificity.compute
MultilabelSensitivityAtSpecificity_compute ==
    LET state == IF thresholds.is_none THEN <<_cat(preds), _cat(target)>> ELSE confmat
    IN  _multilabel_sensitivity_at_specificity_compute(
            state, NumClasses, thresholds, ignore_index, min_specificity)

\* BinaryPrecisionRecallCurve.update (and its multiclass / multilabel counterparts): the
\* formatted batch is appended to the list states, or its counts are added to confmat
sas_update(batch) ==
    /\ metric = "SensitivityAtSpecificity"
    /\ LET kept == Formatted(batch)
           p == [i \in DOMAIN kept |-> kept[i].p]
           t == [i \in DOMAIN kept |-> kept[i].t]
       IN  IF thresholds.is_none
           THEN /\ preds' = Append(preds, p)
                /\ target' = Append(target, t)
                /\ confmat' = confmat
           ELSE /\ confmat' = AddConfmat(task, confmat, BinCounts(task, p, t, thresholds))
                /\ UNCHANGED <<preds, target>>
    /\ observed' = Append(observed, batch)
    /\ ret' = [op |-> "update", shape |-> <<>>, v |-> <<>>]
    /\ UNCHANGED <<metric, npvConfig, statScores, sasConfig, environment>>

\* mutant: compute empties the list states once it has read them
Mut_SasReturns_Clears(r, shape) ==
    /\ metric = "SensitivityAtSpecificity"
    /\ thresholds.is_none => preds # <<>>
    /\ ret' = [op |-> "compute", shape |-> shape, v |-> r]
    /\ preds' = <<>> /\ target' = <<>> /\ confmat' = confmat
    /\ UNCHANGED <<metric, npvConfig, statScores, sasConfig, observed, environment>>

\* metric.compute() returns the pair (sensitivity, threshold); a non-binned object has seen
\* at least one update
SasReturns(r, shape) ==
    /\ metric = "SensitivityAtSpecificity"
    /\ thresholds.is_none => preds # <<>>
    /\ ret' = [op |-> "compute", shape |-> shape, v |-> r]
    /\ UNCHANGED <<metric, npvConfig, statScores, sasConfig, curveState, observed, environment>>

sas_compute ==
    /\ task = "binary"
    /\ LET r == BinarySensitivityAtSpecificity_compute
       IN  SasReturns(<<<<r[1]>>, <<r[2]>>>>, <<>>)

sas_compute_multiclass ==
    /\ task = "multiclass"
    /\ SasReturns(MulticlassSensitivityAtSpecificity_compute, <<NumClasses>>)

sas_compute_multilabel ==
    /\ task = "multilabel"
    /\ SasReturns(MultilabelSensitivityAtSpecificity_compute, <<NumClasses>>)

\* the values of min_specificity: within [0, 1], and beyond 1 for an unvalidated object
MinSpecs(validated) ==
    {Frac(k, MinSpecSteps) : k \in 0..(IF validated THEN MinSpecSteps ELSE MinSpecSteps + 1)}

\* BinarySensitivityAtSpecificity(min_specificity, thresholds=None, validate_args=...)
InitSAS ==
    /\ metric = "SensitivityAtSpecificity"
    /\ task = "binary" /\ average = "binary" /\ multidim_average = "global"
    /\ top_k = DefaultTopK
    /\ tp = <<>> /\ fp = <<>> /\ tn = <<>> /\ fn = <<>>
    /\ validate_args \in BOOLEAN
    /\ min_specificity \in MinSpecs(validate_args)
    /\ thresholds = ThresholdsNone
    /\ ignore_index = IgnoreNone
    /\ preds = <<>> /\ target = <<>> /\ confmat = <<>>
    /\ observed = <<>>
    /\ Standalone
    /\ ret = NoValue

NextSAS ==
    \/ \E batch \in Batches(MaxObs - Stored) : sas_update(batch)
    \/ sas_compute

SpecSAS == InitSAS /\ [][NextSAS]_vars

\* the int values of the thresholds argument
ThresholdCounts == {3, 5}

\* thresholds=None and thresholds=n
ThresholdArgs == {ThresholdsNone} \cup {Binned(Linspace(n)) : n \in ThresholdCounts}

\* number of observations an object of task tk may accumulate
MaxStored(tk) == IF tk = "binary" THEN MaxObs ELSE MaxRows

\* number of observations given to update so far
Observed == Len(_cat(observed))

\* SensitivityAtSpecificity(task, min_specificity, thresholds, num_classes / num_labels):
\* the binned and the non-binned objects of the three tasks
InitCurve ==
    /\ metric = "SensitivityAtSpecificity"
    /\ task \in Tasks
    /\ average = "binary" /\ multidim_average = "global"
    /\ top_k = DefaultTopK
    /\ tp = <<>> /\ fp = <<>> /\ tn = <<>> /\ fn = <<>>
    /\ validate_args = TRUE
    /\ min_specificity \in MinSpecs(validate_args)
    /\ thresholds \in ThresholdArgs
    /\ ignore_index = IgnoreNone
    /\ preds = <<>> /\ target = <<>>
    /\ confmat = IF thresholds.is_none THEN <<>> ELSE InitialConfmat(task, thresholds)
    /\ observed = <<>>
    /\ Standalone
    /\ ret = NoValue

NextCurve ==
    \/ \E batch \in BatchesOf(task, MaxStored(task) - Observed) : sas_update(batch)
    \/ sas_compute
    \/ sas_compute_multiclass
    \/ sas_compute_multilabel

SpecCurve == InitCurve /\ [][NextCurve]_vars

\* the values of ignore_index the tests use besides None
IgnoreArgs == {IgnoreValue(-1), IgnoreValue(0)}

\* objects of either metric constructed with ignore_index set (curves non-binned)
InitIgnore ==
    /\ metric \in {"NegativePredictiveValue", "SensitivityAtSpecificity"}
    /\ task \in Tasks
    /\ ignore_index \in IgnoreArgs
    /\ top_k = DefaultTopK
    /\ validate_args = TRUE
    /\ thresholds = ThresholdsNone
    /\ preds = <<>> /\ target = <<>> /\ confmat = <<>>
    /\ observed = <<>>
    /\ Standalone
    /\ ret = NoValue
    /\ IF metric = "NegativePredictiveValue"
       THEN /\ average \in Averages(task)
            /\ multidim_average \in {"global", "samplewise"}
            /\ tp = InitialState(task, multidim_average)
            /\ fp = InitialState(task, multidim_average)
            /\ tn = InitialState(task, multidim_average)
            /\ fn = InitialState(task, multidim_average)
            /\ min_specificity = Zero
       ELSE /\ average = "binary" /\ multidim_average = "global"
            /\ tp = <<>> /\ fp = <<>> /\ tn = <<>> /\ fn = <<>>
            /\ min_specificity \in MinSpecs(validate_args)

NextIgnore ==
    \/ \E sample \in Samples(MaxStored(task) - Observed) : update(sample)
    \/ compute_binary
    \/ compute_multiclass
    \/ compute_multilabel
    \/ \E batch \in BatchesOf(task, MaxStored(task) - Observed) : sas_update(batch)
    \/ sas_compute
    \/ sas_compute_multiclass
    \/ sas_compute_multilabel

SpecIgnore == InitIgnore /\ [][NextIgnore]_vars

\* number of worker processes of the distributed runs
NumWorkers == 2

Ranks == 0..(NumWorkers - 1)

\* the states of the replica of the running rank
LocalState ==
    [tp |-> tp, fp |-> fp, tn |-> tn, fn |-> fn,
     preds |-> preds, target |-> target, confmat |-> confmat, observed |-> observed]

\* the states of the replica of rank r
StateOf(r) == IF r = world.rank THEN LocalState ELSE world.states[r]

\* all_gather: the states of all the ranks, in rank order
Gathered == [k \in 1..NumWorkers |-> StateOf(k - 1)]

\* number of observations given to update on all the ranks
TotalObserved == ISum([k \in 1..NumWorkers |-> Len(_cat(Gathered[k].observed))])

RECURSIVE ReduceSum(_), ReduceConfmat(_)

\* dist_reduce_fx="sum" for the count states under "global"
ReduceSum(states) ==
    IF Len(states) = 1 THEN states[1]
    ELSE AddState(ReduceSum(SubSeq(states, 1, Len(states) - 1)), states[Len(states)][1])

\* dist_reduce_fx="sum" for the binned curve state
ReduceConfmat(states) ==
    IF Len(states) = 1 THEN states[1]
    ELSE AddConfmat(task, ReduceConfmat(SubSeq(states, 1, Len(states) - 1)), states[Len(states)])

\* the scheduler runs another worker process: rank r's replica becomes the running one
switch(r) ==
    /\ ~world.synced
    /\ r # world.rank
    /\ world' = [world EXCEPT !.rank = r, !.states[world.rank] = LocalState]
    /\ tp' = world.states[r].tp /\ fp' = world.states[r].fp
    /\ tn' = world.states[r].tn /\ fn' = world.states[r].fn
    /\ preds' = world.states[r].preds /\ target' = world.states[r].target
    /\ confmat' = world.states[r].confmat
    /\ observed' = world.states[r].observed
    /\ UNCHANGED <<metric, npvConfig, sasConfig, call, ret>>

\* Metric.sync: the states of the ranks are gathered and reduced into the running replica
\* (counts summed, list states concatenated in rank order), the local states are cached
sync ==
    /\ ~world.synced
    /\ world' = [world EXCEPT !.synced = TRUE, !.cache = LocalState]
    /\ IF metric = "NegativePredictiveValue"
       THEN /\ tp' = ReduceSum([k \in 1..NumWorkers |-> Gathered[k].tp])
            /\ fp' = ReduceSum([k \in 1..NumWorkers |-> Gathered[k].fp])
            /\ tn' = ReduceSum([k \in 1..NumWorkers |-> Gathered[k].tn])
            /\ fn' = ReduceSum([k \in 1..NumWorkers |-> Gathered[k].fn])
            /\ UNCHANGED curveState
       ELSE /\ preds' = _cat([k \in 1..NumWorkers |-> Gathered[k].preds])
            /\ target' = _cat([k \in 1..NumWorkers |-> Gathered[k].target])
            /\ confmat' = IF thresholds.is_none THEN confmat
                          ELSE ReduceConfmat([k \in 1..NumWorkers |-> Gathered[k].confmat])
            /\ UNCHANGED statScores
    /\ observed' = _cat([k \in 1..NumWorkers |-> Gathered[k].observed])
    /\ ret' = [op |-> "sync", shape |-> <<>>, v |-> <<>>]
    /\ UNCHANGED <<metric, npvConfig, sasConfig, call>>

\* Metric.unsync: the cached local states are restored
unsync ==
    /\ world.synced
    /\ world' = [world EXCEPT !.synced = FALSE, !.cache = <<>>]
    /\ tp' = world.cache.tp /\ fp' = world.cache.fp
    /\ tn' = world.cache.tn /\ fn' = world.cache.fn
    /\ preds' = world.cache.preds /\ target' = world.cache.target
    /\ confmat' = world.cache.confmat
    /\ observed' = world.cache.observed
    /\ UNCHANGED <<metric, npvConfig, sasConfig, call, ret>>

\* the metrics of both kinds replicated on NumWorkers ranks, counts kept under "global"
InitWorkers ==
    /\ metric \in {"NegativePredictiveValue", "SensitivityAtSpecificity"}
    /\ task \in Tasks
    /\ multidim_average = "global"
    /\ top_k = DefaultTopK
    /\ validate_args = TRUE
    /\ ignore_index = IgnoreNone
    /\ preds = <<>> /\ target = <<>>
    /\ observed = <<>>
    /\ call = NoCall
    /\ ret = NoValue
    /\ IF metric = "NegativePredictiveValue"
       THEN /\ average \in Averages(task)
            /\ tp = InitialState(task, multidim_average)
            /\ fp = InitialState(task, multidim_average)
            /\ tn = InitialState(task, multidim_average)
            /\ fn = InitialState(task, multidim_average)
            /\ min_specificity = Zero
            /\ thresholds = ThresholdsNone
            /\ confmat = <<>>
       ELSE /\ average = "binary"
            /\ tp = <<>> /\ fp = <<>> /\ tn = <<>> /\ fn = <<>>
            /\ min_specificity = Frac(1, MinSpecSteps)
            /\ thresholds \in {ThresholdsNone, Binned(Linspace(3))}
            /\ confmat = IF thresholds.is_none THEN <<>> ELSE InitialConfmat(task, thresholds)
    /\ world = [rank |-> 0, synced |-> FALSE, cache |-> <<>>,
                states |-> [r \in Ranks |-> LocalState]]

NextWorkers ==
    \/ /\ ~world.synced
       /\ \E sample \in Samples(MaxRows - TotalObserved) : update(sample)
    \/ /\ ~world.synced
       /\ \E batch \in BatchesOf(task, MaxRows - TotalObserved) : sas_update(batch)
    \/ \E r \in Ranks : switch(r)
    \/ sync
    \/ world.synced /\ compute_binary
    \/ world.synced /\ compute_multiclass
    \/ world.synced /\ compute_multilabel
    \/ world.synced /\ sas_compute
    \/ world.synced /\ sas_compute_multiclass
    \/ world.synced /\ sas_compute_multilabel
    \/ unsync

SpecWorkers == InitWorkers /\ [][NextWorkers]_vars

\* argument values of a constructor call: None, an int, a float
ArgNone == [type |-> "NoneType", value |-> 0, values |-> <<>>]

ArgInt(n) == [type |-> "int", value |-> n, values |-> <<>>]

ArgFloat(n) == [type |-> "float", value |-> n, values |-> <<>>]

\* mutant: every value passes for an int
Mut_isinstance_int_Always(x) == TRUE

\* isinstance(x, int)
isinstance_int(x) == x.type = "int"

\* the task strings given to the wrappers: the three tasks and the one of test_wrapper_class
TaskStrings == Tasks \cup {"not_valid_task"}

NoError == [type |-> "none", msg |-> "", at |-> ""]

ValueError(msg, at) == [type |-> "ValueError", msg |-> msg, at |-> at]

\* ClassificationTask.from_str: the member of the enum, or ValueError("Invalid ...")
ClassificationTask_from_str(t) ==
    IF t \in Tasks
    THEN [raised |-> NoError, task |-> t]
    ELSE [raised |-> ValueError("Invalid", "ClassificationTask.from_str"), task |-> "none"]

\* a list of floats and a 1-d tensor of floats given for thresholds
ArgList(values) == [type |-> "list", value |-> Len(values), values |-> values]

ArgTensor(values) == [type |-> "tensor", value |-> Len(values), values |-> values]

\* _adjust_threshold_arg: None stays None, an int n becomes n values linearly spaced from
\* 0 to 1, a list or a tensor gives its values
_adjust_threshold_arg(thr) ==
    CASE thr.type = "NoneType" -> ThresholdsNone
      [] thr.type = "int" -> Binned(Linspace(thr.value))
      [] OTHER -> Binned(thr.values)

\* what argument validation accepts
ValidThresholds(thr) ==
    \/ thr.type = "NoneType"
    \/ thr.type = "int" /\ thr.value >= 2
    \/ /\ thr.type \in {"list", "tensor"}
       /\ \A j \in DOMAIN thr.values : QLeq(Zero, thr.values[j]) /\ QLeq(thr.values[j], One)

ValidMinSpecificity(ms) == QLeq(Zero, ms) /\ QLeq(ms, One)

ValidCount(n) == isinstance_int(n) /\ n.value > 0

ValidAverage(avg) == avg \in {"micro", "macro", "weighted", "none"}

\* _binary_sensitivity_at_specificity_arg_validation
_binary_sensitivity_at_specificity_arg_validation(ms, thr, ign) ==
    IF ~ValidThresholds(thr) THEN ValueError("thresholds", "arg_validation")
    ELSE IF ~ValidMinSpecificity(ms) THEN ValueError("min_specificity", "arg_validation")
    ELSE NoError

\* _multiclass_sensitivity_at_specificity_arg_validation
_multiclass_sensitivity_at_specificity_arg_validation(num_classes, ms, thr, ign) ==
    IF ~ValidCount(num_classes) THEN ValueError("num_classes", "arg_validation")
    ELSE _binary_sensitivity_at_specificity_arg_validation(ms, thr, ign)

\* _multilabel_sensitivity_at_specificity_arg_validation
_multilabel_sensitivity_at_specificity_arg_validation(num_labels, ms, thr, ign) ==
    IF ~ValidCount(num_labels) THEN ValueError("num_labels", "arg_validation")
    ELSE _binary_sensitivity_at_specificity_arg_validation(ms, thr, ign)

\* the argument validation of the stat-score classes
_stat_scores_arg_validation(tk, count, avg) ==
    IF tk # "binary" /\ ~ValidCount(count) THEN ValueError("num_classes", "arg_validation")
    ELSE IF tk # "binary" /\ ~ValidAverage(avg) THEN ValueError("average", "arg_validation")
    ELSE NoError

\* the base-class constructor called with validate_args=False: it builds the states from
\* well-formed arguments; what it does with malformed ones is either an error or an object
BaseInit(wellformed) ==
    IF wellformed THEN {NoError}
    ELSE {NoError, [type |-> "Error", msg |-> "malformed argument", at |-> "super().__init__"]}

\* mutant: a list or a tensor of thresholds refused
Mut_MultilabelSasInit_NoSequences(num_labels, ms, thr, ign, va) ==
    {IF thr.type \in {"list", "tensor"} THEN ValueError("thresholds", "arg_validation")
     ELSE NoError}

\* mutant: the argument validation left out
Mut_BinarySasInit_NoValidation(ms, thr, ign, va) == BaseInit(ValidThresholds(thr))

\* BinarySensitivityAtSpecificity.__init__: the errors it can end with (NoError: the object
\* is initialised)
BinarySensitivityAtSpecificity_init(ms, thr, ign, va) ==
    {IF b # NoError THEN b
     ELSE IF va THEN _binary_sensitivity_at_specificity_arg_validation(ms, thr, ign)
     ELSE NoError : b \in BaseInit(ValidThresholds(thr))}

\* mutant: the argument validation run whatever validate_args is
Mut_MulticlassSasInit_AlwaysValidates(num_classes, ms, thr, ign, va) ==
    {IF b # NoError THEN b
     ELSE _multiclass_sensitivity_at_specificity_arg_validation(num_classes, ms, thr, ign)
     : b \in BaseInit(ValidThresholds(thr) /\ ValidCount(num_classes))}

\* MulticlassSensitivityAtSpecificity.__init__
MulticlassSensitivityAtSpecificity_init(num_classes, ms, thr, ign, va) ==
    {IF b # NoError THEN b
     ELSE IF va
     THEN _multiclass_sensitivity_at_specificity_arg_validation(num_classes, ms, thr, ign)
     ELSE NoError : b \in BaseInit(ValidThresholds(thr) /\ ValidCount(num_classes))}

\* MultilabelSensitivityAtSpecificity.__init__
MultilabelSensitivityAtSpecificity_init(num_labels, ms, thr, ign, va) ==
    {IF b # NoError THEN b
     ELSE IF va
     THEN _multilabel_sensitivity_at_specificity_arg_validation(num_labels, ms, thr, ign)
     ELSE NoError : b \in BaseInit(ValidThresholds(thr) /\ ValidCount(num_labels))}

\* the constructors the negative-predictive-value classes inherit from the stat-score classes
StatScores_init(tk, count, avg, va) ==
    IF va THEN {_stat_scores_arg_validation(tk, count, avg)}
    ELSE BaseInit(tk = "binary" \/ (ValidCount(count) /\ ValidAverage(avg)))

\* the direct base of each class, and isinstance
Bases(c) ==
    CASE c = "BinarySensitivityAtSpecificity" -> "BinaryPrecisionRecallCurve"
      [] c = "MulticlassSensitivityAtSpecificity" -> "MulticlassPrecisionRecallCurve"
      [] c = "MultilabelSensitivityAtSpecificity" -> "MultilabelPrecisionRecallCurve"
      [] c = "BinaryNegativePredictiveValue" -> "BinaryStatScores"
      [] c = "MulticlassNegativePredictiveValue" -> "MulticlassStatScores"
      [] c = "MultilabelNegativePredictiveValue" -> "MultilabelStatScores"
      [] c \in {"SensitivityAtSpecificity", "NegativePredictiveValue"} ->
             "_ClassificationTaskWrapper"
      [] c = "Metric" -> "object"
      [] OTHER -> "Metric"

RECURSIVE Mro(_)

Mro(c) == IF c = "object" THEN {c} ELSE {c} \cup Mro(Bases(c))

isinstance(c, of) == of \in Mro(c)

\* the task class of a wrapper for a task
TaskClass(wrapper, tk) ==
    (CASE tk = "binary" -> "Binary" [] tk = "multiclass" -> "Multiclass" [] OTHER -> "Multilabel")
        \o wrapper

\* the metric a task class belongs to
MetricOf(cls) ==
    IF cls \in {"BinaryNegativePredictiveValue", "MulticlassNegativePredictiveValue",
                "MultilabelNegativePredictiveValue"}
    THEN "NegativePredictiveValue" ELSE "SensitivityAtSpecificity"

\* the wrapper call ends with the exception e: no object is created
Raises(e) ==
    /\ call' = [call EXCEPT !.state = "raised", !.raised = e]
    /\ UNCHANGED <<metric, npvConfig, statScores, sasConfig, curveState, observed, world, ret>>

\* the wrapper call returns the object the class constructor built, unless __init__ ended
\* with the error e
Returned(cls, tk, e, avg, k, ms, thr) ==
    IF e # NoError THEN Raises(e)
    ELSE /\ call' = [call EXCEPT !.state = "returned", !.instance = cls]
         /\ metric' = MetricOf(cls)
         /\ task' = tk
         /\ average' = avg
         /\ multidim_average' = "global"
         /\ top_k' = k
         /\ min_specificity' = ms
         /\ validate_args' = call.validate_args
         /\ thresholds' = _adjust_threshold_arg(thr)
         /\ IF MetricOf(cls) = "NegativePredictiveValue"
            THEN /\ tp' = InitialState(tk, "global") /\ fp' = InitialState(tk, "global")
                 /\ tn' = InitialState(tk, "global") /\ fn' = InitialState(tk, "global")
                 /\ confmat' = <<>>
            ELSE /\ tp' = <<>> /\ fp' = <<>> /\ tn' = <<>> /\ fn' = <<>>
                 /\ confmat' = IF thr.type = "NoneType" THEN <<>>
                               ELSE InitialConfmat(tk, _adjust_threshold_arg(thr))
         /\ UNCHANGED <<ignore_index, preds, target, observed, world, ret>>

\* mutant: the task string is not parsed first, an unknown one falls through the branches
Mut_SasNew_FallsThrough ==
    /\ call.cls = "SensitivityAtSpecificity"
    /\ call.state = "pending"
    /\ call.task \notin Tasks
    /\ Raises(ValueError("Task not supported!", "__new__"))

\* SensitivityAtSpecificity.__new__
SensitivityAtSpecificity_new ==
    /\ call.cls = "SensitivityAtSpecificity"
    /\ call.state = "pending"
    /\ LET parsed == ClassificationTask_from_str(call.task)
       IN  IF parsed.raised # NoError THEN Raises(parsed.raised)
           ELSE IF parsed.task = "binary"
           THEN \E e \in BinarySensitivityAtSpecificity_init(
                             call.min_specificity, call.thresholds, IgnoreNone,
                             call.validate_args) :
                    Returned("BinarySensitivityAtSpecificity", "binary", e, "binary",
                             DefaultTopK, call.min_specificity, call.thresholds)
           ELSE IF parsed.task = "multiclass"
           THEN IF ~isinstance_int(call.num_classes)
                THEN Raises(ValueError("num_classes is expected to be int", "__new__"))
                ELSE \E e \in MulticlassSensitivityAtSpecificity_init(
                                  call.num_classes, call.min_specificity, call.thresholds,
                                  IgnoreNone, call.validate_args) :
                         Returned("MulticlassSensitivityAtSpecificity", "multiclass", e,
                                  "binary", DefaultTopK, call.min_specificity, call.thresholds)
           ELSE IF parsed.task = "multilabel"
           THEN IF ~isinstance_int(call.num_labels)
                THEN Raises(ValueError("num_labels is expected to be int", "__new__"))
                ELSE \E e \in MultilabelSensitivityAtSpecificity_init(
                                  call.num_labels, call.min_specificity, call.thresholds,
                                  IgnoreNone, call.validate_args) :
                         Returned("MultilabelSensitivityAtSpecificity", "multilabel", e,
                                  "binary", DefaultTopK, call.min_specificity, call.thresholds)
           ELSE Raises(ValueError("Task not supported!", "__new__"))

\* mutant: the binary class whatever the task is
Mut_NpvNew_AlwaysBinary ==
    /\ call.cls = "NegativePredictiveValue"
    /\ call.state = "pending"
    /\ \E e \in StatScores_init("binary", ArgNone, "binary", call.validate_args) :
           Returned("BinaryNegativePredictiveValue", "binary", e, "binary",
                    DefaultTopK, Zero, ArgNone)

\* NegativePredictiveValue.__new__
NegativePredictiveValue_new ==
    /\ call.cls = "NegativePredictiveValue"
    /\ call.state = "pending"
    /\ LET parsed == ClassificationTask_from_str(call.task)
       IN  IF parsed.raised # NoError THEN Raises(parsed.raised)
           ELSE IF parsed.task = "binary"
           THEN \E e \in StatScores_init("binary", ArgNone, "binary", call.validate_args) :
                    Returned("BinaryNegativePredictiveValue", "binary", e, "binary",
                             DefaultTopK, Zero, ArgNone)
           ELSE IF parsed.task = "multiclass"
           THEN IF ~isinstance_int(call.num_classes)
                THEN Raises(ValueError("num_classes is expected to be int", "__new__"))
                ELSE IF ~isinstance_int(call.top_k)
                THEN Raises(ValueError("top_k is expected to be int", "__new__"))
                ELSE \E e \in StatScores_init("multiclass", call.num_classes, call.average,
                                              call.validate_args) :
                         Returned("MulticlassNegativePredictiveValue", "multiclass", e,
                                  call.average, call.top_k.value, Zero, ArgNone)
           ELSE IF parsed.task = "multilabel"
           THEN IF ~isinstance_int(call.num_labels)
                THEN Raises(ValueError("num_labels is expected to be int", "__new__"))
                ELSE \E e \in StatScores_init("multilabel", call.num_labels, call.average,
                                              call.validate_args) :
                         Returned("MultilabelNegativePredictiveValue", "multilabel", e,
                                  call.average, DefaultTopK, Zero, ArgNone)
           ELSE Raises(ValueError("Task not supported!", "__new__"))

\* the values given for num_classes / num_labels: the default None, the number of classes,
\* a non-positive int, a float
CountArgs == {ArgNone, ArgInt(NumClasses), ArgInt(0), ArgFloat(NumClasses)}

\* the arguments of the wrapper calls
Calls ==
    [cls : {"SensitivityAtSpecificity"}, task : TaskStrings,
     num_classes : CountArgs, num_labels : CountArgs,
     top_k : {ArgInt(DefaultTopK)}, average : {"micro"},
     validate_args : BOOLEAN,
     min_specificity : MinSpecs(FALSE),
     thresholds : {ArgNone, ArgInt(3), ArgInt(0)},
     state : {"pending"}, raised : {NoError}, instance : {"none"}]
    \cup
    [cls : {"NegativePredictiveValue"}, task : TaskStrings,
     num_classes : CountArgs, num_labels : CountArgs,
     top_k : {ArgInt(DefaultTopK), ArgNone},
     average : {"micro", "macro", "weighted", "none", "not_valid_average"},
     validate_args : BOOLEAN,
     min_specificity : {Zero},
     thresholds : {ArgNone},
     state : {"pending"}, raised : {NoError}, instance : {"none"}]

\* a wrapper call about to be made: no object yet
InitNew ==
    /\ call \in Calls
    /\ metric = "none" /\ task = "none"
    /\ average = "unset" /\ multidim_average = "unset"
    /\ top_k = DefaultTopK
    /\ tp = <<>> /\ fp = <<>> /\ tn = <<>> /\ fn = <<>>
    /\ min_specificity = Zero /\ thresholds = ThresholdsNone /\ validate_args = FALSE
    /\ ignore_index = IgnoreNone
    /\ preds = <<>> /\ target = <<>> /\ confmat = <<>>
    /\ observed = <<>>
    /\ world = SingleProcess
    /\ ret = NoValue

NextNew ==
    \/ SensitivityAtSpecificity_new
    \/ NegativePredictiveValue_new

SpecNew == InitNew /\ [][NextNew]_vars

\* the values given for thresholds: None, an int larger than 1, a list of floats, a 1-d
\* tensor of floats, and the malformed int 0 and list with a value above 1
ThresholdForms ==
    {ArgNone, ArgInt(3), ArgInt(5), ArgList(<<Frac(1, 4), Frac(1, 2), Frac(3, 4)>>),
     ArgTensor(Linspace(3)), ArgInt(0), ArgList(<<Frac(1, 2), Frac(3, 2)>>)}

\* the arguments of the direct calls of the three sensitivity-at-specificity classes
DirectCalls ==
    [cls : {"BinarySensitivityAtSpecificity"}, count : {ArgNone},
     validate_args : BOOLEAN, min_specificity : MinSpecs(FALSE), thresholds : ThresholdForms,
     state : {"pending"}, raised : {NoError}, instance : {"none"}]
    \cup
    [cls : {"MulticlassSensitivityAtSpecificity", "MultilabelSensitivityAtSpecificity"},
     count : {ArgInt(NumClasses), ArgInt(0)},
     validate_args : BOOLEAN, min_specificity : MinSpecs(FALSE), thresholds : ThresholdForms,
     state : {"pending"}, raised : {NoError}, instance : {"none"}]

\* BinarySensitivityAtSpecificity(min_specificity, thresholds, ignore_index, validate_args)
BinarySensitivityAtSpecificity_call ==
    /\ call.cls = "BinarySensitivityAtSpecificity"
    /\ call.state = "pending"
    /\ \E e \in BinarySensitivityAtSpecificity_init(
                    call.min_specificity, call.thresholds, IgnoreNone, call.validate_args) :
           Returned("BinarySensitivityAtSpecificity", "binary", e, "binary", DefaultTopK,
                    call.min_specificity, call.thresholds)

\* MulticlassSensitivityAtSpecificity(num_classes, min_specificity, thresholds, ...)
MulticlassSensitivityAtSpecificity_call ==
    /\ call.cls = "MulticlassSensitivityAtSpecificity"
    /\ call.state = "pending"
    /\ \E e \in MulticlassSensitivityAtSpecificity_init(
                    call.count, call.min_specificity, call.thresholds, IgnoreNone,
                    call.validate_args) :
           Returned("MulticlassSensitivityAtSpecificity", "multiclass", e, "binary",
                    DefaultTopK, call.min_specificity, call.thresholds)

\* MultilabelSensitivityAtSpecificity(num_labels, min_specificity, thresholds, ...)
MultilabelSensitivityAtSpecificity_call ==
    /\ call.cls = "MultilabelSensitivityAtSpecificity"
    /\ call.state = "pending"
    /\ \E e \in MultilabelSensitivityAtSpecificity_init(
                    call.count, call.min_specificity, call.thresholds, IgnoreNone,
                    call.validate_args) :
           Returned("MultilabelSensitivityAtSpecificity", "multilabel", e, "binary",
                    DefaultTopK, call.min_specificity, call.thresholds)

\* a class call about to be made: no object yet
InitDirect ==
    /\ call \in DirectCalls
    /\ metric = "none" /\ task = "none"
    /\ average = "unset" /\ multidim_average = "unset"
    /\ top_k = DefaultTopK
    /\ tp = <<>> /\ fp = <<>> /\ tn = <<>> /\ fn = <<>>
    /\ min_specificity = Zero /\ thresholds = ThresholdsNone /\ validate_args = FALSE
    /\ ignore_index = IgnoreNone
    /\ preds = <<>> /\ target = <<>> /\ confmat = <<>>
    /\ observed = <<>>
    /\ world = SingleProcess
    /\ ret = NoValue

NextDirect ==
    \/ BinarySensitivityAtSpecificity_call
    \/ MulticlassSensitivityAtSpecificity_call
    \/ MultilabelSensitivityAtSpecificity_call

SpecDirect == InitDirect /\ [][NextDirect]_vars

\* objects of either metric
InitMetrics == InitNPV \/ InitCurve

NextMetrics == NextNPV \/ NextCurve

SpecMetrics == InitMetrics /\ [][NextMetrics]_vars

\* ----------------------------------------------------------- properties
\* the latest call was compute on a negative-predictive-value object
Computed == metric = "NegativePredictiveValue" /\ ret.op = "compute"

\* the returned entry q is the number n / d
Equals(q, n, d) == q[2] > 0 /\ q[1] * d = n * q[2]

\* sample groups (rows) of the accumulated state
Rows == DOMAIN tn

\* TN / (TN + FN) of class c in row i, 0 where the denominator is 0
ClassNPV(i, c) ==
    IF tn[i][c] + fn[i][c] = 0 THEN Zero ELSE Frac(tn[i][c], tn[i][c] + fn[i][c])

\* counts pooled over the classes of row i
RECURSIVE Pooled(_, _, _)
Pooled(state, i, c) == IF c = 0 THEN 0 ELSE state[i][c] + Pooled(state, i, c - 1)

\* sum over the classes 1..c of row i of weight * ClassNPV, weight 1 or the support TP + FN
RECURSIVE WeightedNPVSum(_, _, _)
WeightedNPVSum(i, c, bySupport) ==
    IF c = 0 THEN Zero
    ELSE QAdd(QMul(FromInt(IF bySupport THEN tp[i][c] + fn[i][c] ELSE 1), ClassNPV(i, c)),
              WeightedNPVSum(i, c - 1, bySupport))

\* C1: for binary counts with TN + FN > 0, compute returns exactly TN / (TN + FN),
\* whatever TP and FP are (per sample under samplewise)
C1_BinaryValue ==
    (Computed /\ task = "binary") =>
        \A i \in Rows :
            tn[i][1] + fn[i][1] > 0 =>
                Equals(ret.v[i][1], tn[i][1], tn[i][1] + fn[i][1])

C1_Witness ==
    /\ Computed /\ task = "binary"
    /\ \E i \in Rows : tn[i][1] > 0 /\ fn[i][1] > 0 /\ tp[i][1] + fp[i][1] > 0

C3_Micro ==
    (Computed /\ average = "micro") =>
        \A i \in Rows :
            LET T == Pooled(tn, i, NumClasses)
                F == Pooled(fn, i, NumClasses)
            IN  /\ Len(ret.v[i]) = 1
                /\ IF T + F = 0 THEN ret.v[i][1] = Zero ELSE Equals(ret.v[i][1], T, T + F)

C3_Witness ==
    /\ Computed /\ average = "micro" /\ multidim_average = "global"
    /\ \E c, d \in Classes(task) : ClassNPV(1, c) # ClassNPV(1, d) /\ tn[1][c] > 0 /\ fn[1][c] > 0
    /\ QMul(ret.v[1][1], FromInt(NumClasses)) # WeightedNPVSum(1, NumClasses, FALSE)

\* C4: under average = "macro" the value is the unweighted mean of the per-class values over all
\* C classes, zero-denominator classes and classes absent from preds and target included
C4_Macro ==
    (Computed /\ average = "macro") =>
        \A i \in Rows :
            /\ Len(ret.v[i]) = 1
            /\ QMul(ret.v[i][1], FromInt(NumClasses)) = WeightedNPVSum(i, NumClasses, FALSE)

C4_Witness ==
    /\ Computed /\ average = "macro" /\ task = "multiclass"
    /\ \E i \in Rows :
          /\ \E c \in Classes(task) : tn[i][c] + fn[i][c] = 0
          /\ \E c \in Classes(task) : tp[i][c] + fp[i][c] + fn[i][c] = 0
          /\ ret.v[i][1] # Zero

\* C5: under average = "weighted" the value is sum(support * value) / sum(support) with support
\* TP + FN per class, and 0 when the total support is 0
C5_Weighted ==
    (Computed /\ average = "weighted") =>
        \A i \in Rows :
            LET S == Pooled(tp, i, NumClasses) + Pooled(fn, i, NumClasses)
            IN  /\ Len(ret.v[i]) = 1
                /\ IF S = 0 THEN ret.v[i][1] = Zero
                   ELSE QMul(ret.v[i][1], FromInt(S)) = WeightedNPVSum(i, NumClasses, TRUE)

C5_Witness ==
    /\ Computed /\ average = "weighted"
    /\ \E i \in Rows : \E c, d \in Classes(task) :
          /\ tp[i][c] + fn[i][c] > tp[i][d] + fn[i][d]
          /\ tp[i][d] + fn[i][d] > 0
          /\ ClassNPV(i, c) # ClassNPV(i, d)
          /\ QMul(ret.v[i][1], FromInt(NumClasses)) # WeightedNPVSum(i, NumClasses, FALSE)

\* the value of row i by the averaging mode, from that row's counts alone
RowValue(i) ==
    CASE average = "binary" -> <<ClassNPV(i, 1)>>
      [] average = "none" -> [c \in 1..NumClasses |-> ClassNPV(i, c)]
      [] average = "micro" ->
            LET T == Pooled(tn, i, NumClasses)
                F == Pooled(fn, i, NumClasses)
            IN  <<IF T + F = 0 THEN Zero ELSE Frac(T, T + F)>>
      [] average = "macro" -> <<QDiv(WeightedNPVSum(i, NumClasses, FALSE), FromInt(NumClasses))>>
      [] OTHER ->
            LET S == Pooled(tp, i, NumClasses) + Pooled(fn, i, NumClasses)
            IN  <<IF S = 0 THEN Zero ELSE QDiv(WeightedNPVSum(i, NumClasses, TRUE), FromInt(S))>>

\* C6: the configuration fixes the shape of the result: (C,) entries in class order under
\* average "none", a single value under micro / macro / weighted, one such result per sample
\* under "samplewise", each from that sample's counts alone; under "global" one result from
\* the counts of all accumulated elements
C6_Shape ==
    Computed =>
        /\ ret.shape = (IF multidim_average = "samplewise" THEN <<Len(tn)>> ELSE <<>>)
                          \o (IF average = "none" THEN <<NumClasses>> ELSE <<>>)
        /\ DOMAIN ret.v = Rows
        /\ \A i \in Rows : ret.v[i] = RowValue(i)
        /\ multidim_average = "global" =>
              /\ Len(tn) = 1
              /\ \A c \in Classes(task) : tp[1][c] + fp[1][c] + tn[1][c] + fn[1][c] = Accumulated

C6_Witness ==
    /\ Computed /\ average = "none" /\ multidim_average = "samplewise"
    /\ Len(tn) >= 2
    /\ ret.v[1] # ret.v[2]
    /\ ret.v[1][1] # ret.v[1][2]
    /\ ret.shape = <<Len(tn), NumClasses>>

\* the latest call was compute on a sensitivity-at-specificity object
SasComputed == metric = "SensitivityAtSpecificity" /\ ret.op = "compute"

\* the pair (sensitivity, threshold) the metric returned
RetPair == <<ret.v[1][1], ret.v[2][1]>>

\* the pair the reference of the tests yields for all the observations given to update
RefPair ==
    _reference_sklearn_sensitivity_at_specificity_binary(
        _cat(preds), _cat(target), min_specificity, IgnoreNone)

\* the ROC curve of all the observations given to update
Curve == _binary_roc_compute(<<_cat(preds), _cat(target)>>, thresholds)

Points == DOMAIN Curve.fpr

\* point j has specificity >= min_specificity
MeetsBound(j) == QLeq(min_specificity, QSub(One, Curve.fpr[j]))

SentinelPair == <<Zero, FromInt(SentinelThreshold)>>

\* pair is a qualifying point of the curve and no qualifying point has a higher sensitivity
IsBestQualifying(pair) ==
    /\ \E j \in Points : MeetsBound(j) /\ Curve.tpr[j] = pair[1] /\ Curve.thresholds[j] = pair[2]
    /\ \A j \in Points : MeetsBound(j) => QLeq(Curve.tpr[j], pair[1])

\* C7: when some ROC point has specificity >= min_specificity, the returned sensitivity is the
\* maximum over exactly the qualifying points and the threshold is that of such a point; the
\* metric and the reference of the tests agree
C7_MaxOverQualifying ==
    (SasComputed /\ \E j \in Points : MeetsBound(j)) =>
        /\ IsBestQualifying(RetPair)
        /\ IsBestQualifying(RefPair)
        /\ RetPair = RefPair

C7_Witness ==
    /\ SasComputed
    /\ \E j \in Points : MeetsBound(j) /\ QLess(Zero, Curve.tpr[j])
    /\ \E j \in Points : ~MeetsBound(j) /\ QLess(RetPair[1], Curve.tpr[j])
    /\ Len(preds) >= 2

\* C8: when no ROC point has specificity >= min_specificity the result is sensitivity 0 with
\* the sentinel threshold 1e6, a value and not an error
C8_Sentinel ==
    (SasComputed /\ ~(\E j \in Points : MeetsBound(j))) =>
        /\ RetPair = SentinelPair
        /\ RefPair = SentinelPair

C8_Witness ==
    /\ SasComputed
    /\ ~(\E j \in Points : MeetsBound(j))
    /\ RetPair = SentinelPair
    /\ \E j \in Points : QLess(Zero, Curve.tpr[j])

\* the qualifying points whose sensitivity is the returned one
Tied(pair) == {j \in Points : MeetsBound(j) /\ Curve.tpr[j] = pair[1]}

\* pair carries the threshold of the first tied point, the highest threshold among them
IsFirstTied(pair) ==
    /\ Tied(pair) # {}
    /\ \E j \in Tied(pair) :
          /\ \A k \in Tied(pair) : j <= k
          /\ pair[2] = Curve.thresholds[j]
    /\ \A k \in Tied(pair) : QLeq(Curve.thresholds[k], pair[2])

\* C9: among several qualifying points of maximum sensitivity the first in curve order is
\* returned, the one with the highest threshold
C9_FirstTied ==
    (SasComputed /\ \E j \in Points : MeetsBound(j)) =>
        /\ IsFirstTied(RetPair)
        /\ IsFirstTied(RefPair)

C9_Witness ==
    /\ SasComputed
    /\ \E j, k \in Tied(RetPair) : QLess(Curve.thresholds[k], Curve.thresholds[j])
    /\ QLess(Zero, RetPair[1])

\* negatives among all observations, and those scored at least the threshold of point j
Negatives == Cardinality({i \in DOMAIN _cat(target) : _cat(target)[i] = 0})

FalsePositives(j) ==
    Cardinality({i \in DOMAIN _cat(target) :
        /\ _cat(target)[i] = 0
        /\ j > 1
        /\ QLeq(Curve.thresholds[j], ScoreOf(_cat(preds)[i]))})

\* 1 - fpr >= min_specificity at point j, in whole numbers (fpr is 0 without negatives)
SpecificityAtLeast(j) ==
    IF Negatives = 0 THEN min_specificity[1] <= min_specificity[2]
    ELSE min_specificity[1] * Negatives <= (Negatives - FalsePositives(j)) * min_specificity[2]

\* 1 - fpr = min_specificity at point j
SpecificityOnBound(j) ==
    IF Negatives = 0 THEN min_specificity[1] = min_specificity[2]
    ELSE min_specificity[1] * Negatives = (Negatives - FalsePositives(j)) * min_specificity[2]

\* pair respects the filter 1 - fpr >= min_specificity, the bound included
RespectsFilter(pair) ==
    /\ pair = SentinelPair <=> ~(\E j \in Points : SpecificityAtLeast(j))
    /\ \A j \in Points : SpecificityOnBound(j) => QLeq(Curve.tpr[j], pair[1])
    /\ pair # SentinelPair =>
          \E j \in Points :
              SpecificityAtLeast(j) /\ Curve.tpr[j] = pair[1] /\ Curve.thresholds[j] = pair[2]

\* C10: the filter uses specificity = 1 - fpr, and a point qualifies iff 1 - fpr >= min_specificity,
\* a point exactly on the bound included
C10_InclusiveBound ==
    SasComputed =>
        /\ Qualifying(_convert_fpr_to_specificity(Curve.fpr), min_specificity)
              = {j \in Points : SpecificityAtLeast(j)}
        /\ RespectsFilter(RetPair)
        /\ RespectsFilter(RefPair)

C10_Witness ==
    /\ SasComputed
    /\ \E j \in Points :
          /\ SpecificityOnBound(j)
          /\ Curve.tpr[j] = RetPair[1]
          /\ QLess(Zero, Curve.fpr[j])
          /\ \A k \in Points : (k # j /\ MeetsBound(k)) => QLess(Curve.tpr[k], Curve.tpr[j])

\* the latest call was compute on a sensitivity-at-specificity object of any task
CurveComputed == metric = "SensitivityAtSpecificity" /\ ret.op = "compute"

\* the scores and the targets of all the observations given to update, as given
ObservedPreds == [i \in DOMAIN _cat(observed) |-> _cat(observed)[i].p]

ObservedTargets == [i \in DOMAIN _cat(observed) |-> _cat(observed)[i].t]

\* what a non-binned computation returns for class c of the same observations
Unbinned(c) ==
    _binary_sensitivity_at_specificity_compute(
        BinaryView(task, ObservedPreds, ObservedTargets, c), ThresholdsNone, min_specificity)

\* the distinct score values of class c among the observations
ScoresOf(c) ==
    LET view == BinaryView(task, ObservedPreds, ObservedTargets, c)
    IN  {ScoreOf(view[1][i]) : i \in DOMAIN view[1]}

\* the threshold values tell every two distinct scores of class c apart, and one of them
\* lies above every score
Separates(c) ==
    /\ \A x \in ScoresOf(c) : \E j \in DOMAIN thresholds.values :
          /\ QLeq(thresholds.values[j], x)
          /\ \A y \in ScoresOf(c) : QLess(y, x) => QLess(y, thresholds.values[j])
    /\ \E j \in DOMAIN thresholds.values : \A x \in ScoresOf(c) : QLess(x, thresholds.values[j])

\* C11 (as stated): the binned sensitivity equals the non-binned one for every thresholds
\* argument and every input
C11_Original ==
    (CurveComputed /\ ~thresholds.is_none) =>
        \A c \in Classes(task) : ret.v[1][c] = Unbinned(c)[1]

\* C11 (amended): the binned sensitivity never exceeds the non-binned one, and equals it
\* when the threshold values tell all distinct scores apart; binary, multiclass, multilabel
C11_BinnedAgreesWhenSeparated ==
    (CurveComputed /\ ~thresholds.is_none) =>
        \A c \in Classes(task) :
            /\ QLeq(ret.v[1][c], Unbinned(c)[1])
            /\ Separates(c) => ret.v[1][c] = Unbinned(c)[1]

C11_Witness ==
    /\ CurveComputed /\ ~thresholds.is_none
    /\ \E c \in Classes(task) :
          /\ Separates(c)
          /\ Cardinality(ScoresOf(c)) >= 2
          /\ QLess(Zero, ret.v[1][c]) /\ QLess(ret.v[1][c], One)
          /\ ret.v[1][c] = Unbinned(c)[1]

\* entry c of the returned pair
Entry(c) == <<ret.v[1][c], ret.v[2][c]>>

\* what a binary object with the same thresholds and bound returns for the scores of
\* column c against the indicator target of class / label c
BinaryResult(c) ==
    LET view == BinaryView(task, ObservedPreds, ObservedTargets, c)
    IN  _binary_sensitivity_at_specificity_compute(
            IF thresholds.is_none THEN view ELSE BinCounts("binary", view[1], view[2], thresholds),
            thresholds, min_specificity)

\* the per-class pairs of the reference of the tests for all the observations
ReferenceResult ==
    IF task = "multiclass"
    THEN _reference_sklearn_sensitivity_at_specificity_multiclass(
             ObservedPreds, ObservedTargets, min_specificity, ignore_index)
    ELSE _reference_sklearn_sensitivity_at_specificity_multilabel(
             ObservedPreds, ObservedTargets, min_specificity, ignore_index)

\* C12: entry i of the multiclass (one-vs-rest) and of the multilabel (per label) result is
\* the binary result for column i against the indicator target of i, and it is the entry
\* the reference of the tests computes class by class
C12_OneVsRest ==
    (CurveComputed /\ task \in {"multiclass", "multilabel"}) =>
        \A c \in Classes(task) :
            /\ Entry(c) = BinaryResult(c)
            /\ thresholds.is_none =>
                  Entry(c) = <<ReferenceResult[1][c], ReferenceResult[2][c]>>

C12_Witness ==
    /\ CurveComputed /\ task = "multiclass" /\ thresholds.is_none
    /\ Entry(1) = BinaryResult(1) /\ Entry(2) = BinaryResult(2)
    /\ QLess(Zero, ret.v[1][1]) /\ QLess(ret.v[1][2], ret.v[1][1])
    /\ ret.v[2][1] # ret.v[2][2]

\* the stat-score state one update call with all the observations leaves: one row per
\* sample under "samplewise", one row of counts over everything under "global"
SingleUpdate(P, T) ==
    IF multidim_average = "samplewise"
    THEN [i \in DOMAIN observed |-> StatRow(observed[i], P, T)]
    ELSE <<StatRow(_cat(observed), P, T)>>

\* the value the reduction gives for the counts of a single update with everything
SingleNPV ==
    _negative_predictive_value_reduce(
        SingleUpdate(TRUE, TRUE), SingleUpdate(TRUE, FALSE),
        SingleUpdate(FALSE, FALSE), SingleUpdate(FALSE, TRUE),
        average, multidim_average, task = "multilabel", top_k)

\* the curve state a single update with all the observations leaves, and its value
SingleCurveState ==
    IF thresholds.is_none THEN <<ObservedPreds, ObservedTargets>>
    ELSE BinCounts(task, ObservedPreds, ObservedTargets, thresholds)

SingleCurve ==
    CASE task = "binary" ->
             LET r == _binary_sensitivity_at_specificity_compute(
                          SingleCurveState, thresholds, min_specificity)
             IN  <<<<r[1]>>, <<r[2]>>>>
      [] task = "multiclass" ->
             _multiclass_sensitivity_at_specificity_compute(
                 SingleCurveState, NumClasses, thresholds, min_specificity)
      [] OTHER ->
             _multilabel_sensitivity_at_specificity_compute(
                 SingleCurveState, NumClasses, thresholds, ignore_index, min_specificity)

\* C13: after any sequence of update calls compute returns what a single computation over
\* the concatenation of all their observations returns, for both metrics
C13_BatchSplitting ==
    /\ Computed => (ret.v = SingleNPV.v /\ ret.shape = SingleNPV.shape)
    /\ CurveComputed => ret.v = SingleCurve
    /\ (CurveComputed /\ task = "binary" /\ thresholds.is_none) =>
           <<ret.v[1][1], ret.v[2][1]>> =
               _reference_sklearn_sensitivity_at_specificity_binary(
                   ObservedPreds, ObservedTargets, min_specificity, ignore_index)

C13_Witness ==
    /\ Len(observed) >= 2
    /\ \/ /\ CurveComputed /\ task = "binary" /\ thresholds.is_none
          /\ ret.v = SingleCurve
          /\ QLess(Zero, ret.v[1][1])
          /\ _binary_sensitivity_at_specificity_compute(
                 <<preds[1], target[1]>>, thresholds, min_specificity) # <<ret.v[1][1], ret.v[2][1]>>
       \/ /\ Computed /\ multidim_average = "global"
          /\ ret.v = SingleNPV.v
          /\ QLess(Zero, ret.v[1][1]) /\ QLess(ret.v[1][1], One)

\* number of elements behind row i of the stat-score states: those of sample i under
\* "samplewise", all the elements given to update under "global"
ElementsBehind(i) ==
    IF multidim_average = "samplewise" THEN Len(observed[i]) ELSE Len(_cat(observed))

LabelFor(e, c) == IF task = "multilabel" THEN e.t[c] ELSE e.t

\* the elements of a sequence whose label for c is not ignore_index
Removed(elems, c) ==
    Masked(elems, [i \in DOMAIN elems |-> LabelFor(elems[i], c) # IgnoredTarget(task)])

\* the counts of the elements left, counted with no ignore_index at all
PlainRow(sample, P, T) ==
    [c \in Classes(task) |->
        LET kept == Removed(sample, c)
        IN  Cardinality({i \in DOMAIN kept :
                PredPos(kept[i], c) = P /\ TargetPos(kept[i], c) = T})]

PlainState(P, T) ==
    IF multidim_average = "samplewise"
    THEN [i \in DOMAIN observed |-> PlainRow(observed[i], P, T)]
    ELSE <<PlainRow(_cat(observed), P, T)>>

\* the negative predictive value of the data with the ignored observations removed
RemovedNPV ==
    _negative_predictive_value_reduce(
        PlainState(TRUE, TRUE), PlainState(TRUE, FALSE),
        PlainState(FALSE, FALSE), PlainState(FALSE, TRUE),
        average, multidim_average, task = "multilabel", top_k)

\* the binary problem of class / label c once the ignored observations are removed, and
\* the pair a non-binned search gives on it
RemovedView(c) ==
    LET kept == Removed(_cat(observed), c)
    IN  BinaryView(task, [i \in DOMAIN kept |-> kept[i].p],
                   [i \in DOMAIN kept |-> kept[i].t], c)

RemovedCurve(c) ==
    _binary_sensitivity_at_specificity_compute(RemovedView(c), ThresholdsNone, min_specificity)

\* some observation given to update carries ignore_index for class / label c
SomeIgnored(c) ==
    \E i \in DOMAIN _cat(observed) : LabelFor(_cat(observed)[i], c) = IgnoredTarget(task)

\* C15: with ignore_index set (0 included) compute returns what the same data gives once
\* the observations whose target is ignore_index are removed, which for the curves is
\* also what the references of the tests return
C15_IgnoreIndex ==
    ~ignore_index.is_none =>
        /\ Computed => (ret.v = RemovedNPV.v /\ ret.shape = RemovedNPV.shape)
        /\ CurveComputed => \A c \in Classes(task) : Entry(c) = RemovedCurve(c)
        /\ (CurveComputed /\ task = "binary") =>
               Entry(1) = _reference_sklearn_sensitivity_at_specificity_binary(
                              ObservedPreds, ObservedTargets, min_specificity, ignore_index)
        /\ (CurveComputed /\ task # "binary") =>
               \A c \in Classes(task) :
                   Entry(c) = <<ReferenceResult[1][c], ReferenceResult[2][c]>>

C15_Witness ==
    /\ CurveComputed /\ task = "multilabel"
    /\ ignore_index = IgnoreValue(0)
    /\ SomeIgnored(1)
    /\ Entry(1) = RemovedCurve(1)
    /\ QLess(Zero, ret.v[1][1])
    /\ Entry(1) # _binary_sensitivity_at_specificity_compute(
                      BinaryView(task, ObservedPreds, ObservedTargets, 1),
                      ThresholdsNone, min_specificity)

\* the observations each rank was given, in rank order, while the running replica holds
\* the merged states
Shares ==
    [k \in 1..NumWorkers |->
        IF k - 1 = world.rank THEN world.cache.observed ELSE world.states[k - 1].observed]

\* C16: whatever the partition of the observations over the worker processes and the
\* interleaving of their updates, the value computed on the merged states (counts summed,
\* stored predictions / targets concatenated) is the value of a single process that is
\* given all the observations
C16_WorkersMerge ==
    world.synced =>
        /\ observed = _cat(Shares)
        /\ Computed => (ret.v = SingleNPV.v /\ ret.shape = SingleNPV.shape)
        /\ CurveComputed => ret.v = SingleCurve
        /\ (CurveComputed /\ thresholds.is_none /\ task = "binary") =>
               Entry(1) = _reference_sklearn_sensitivity_at_specificity_binary(
                              ObservedPreds, ObservedTargets, min_specificity, ignore_index)
        /\ (CurveComputed /\ thresholds.is_none /\ task = "multiclass") =>
               \A c \in Classes(task) :
                   Entry(c) = <<ReferenceResult[1][c], ReferenceResult[2][c]>>

C16_Witness ==
    /\ world.synced /\ CurveComputed
    /\ task = "binary" /\ thresholds.is_none
    /\ \A k \in 1..NumWorkers : Shares[k] # <<>>
    /\ ret.v = SingleCurve
    /\ QLess(Zero, ret.v[1][1])
    /\ \E k \in 1..NumWorkers :
           LET own == _cat(Shares[k])
           IN  Entry(1) # _binary_sensitivity_at_specificity_compute(
                              <<[i \in DOMAIN own |-> own[i].p], [i \in DOMAIN own |-> own[i].t]>>,
                              thresholds, min_specificity)

Wrappers == {"SensitivityAtSpecificity", "NegativePredictiveValue"}

\* the wrapper call has ended
Called == call.state \in {"raised", "returned"}

\* the argument the wrapper reads as the number of classes / labels of the task
CountGiven == IF call.task = "multiclass" THEN call.num_classes ELSE call.num_labels

\* every argument the called class is given is one argument validation accepts
WellFormedCall ==
    /\ call.cls = "SensitivityAtSpecificity" =>
           /\ QLeq(Zero, call.min_specificity) /\ QLeq(call.min_specificity, One)
           /\ call.thresholds \in {ArgNone, ArgInt(3)}
    /\ call.task # "binary" =>
           /\ CountGiven = ArgInt(NumClasses)
           /\ call.top_k = ArgInt(DefaultTopK)
           /\ call.average \in {"micro", "macro", "weighted", "none"}

\* C17: the wrappers dispatch on the task string: the call returns an instance of the
\* class of that metric for that task (given an int num_classes / num_labels), which is a
\* Metric and an instance of no class of another task or metric, nor of the wrapper
C17_Dispatch ==
    /\ call.state = "returned" =>
           /\ call.task \in Tasks
           /\ call.instance = TaskClass(call.cls, call.task)
           /\ metric = call.cls /\ task = call.task
           /\ isinstance(call.instance, "Metric")
           /\ ~isinstance(call.instance, call.cls)
           /\ \A w \in Wrappers : \A t \in Tasks :
                  <<w, t>> # <<call.cls, call.task>> =>
                      ~isinstance(call.instance, TaskClass(w, t))
           /\ call.task # "binary" => CountGiven.type = "int"
    /\ (Called /\ call.task \in Tasks /\ WellFormedCall) => call.state = "returned"

C17_Witness ==
    /\ call.state = "returned"
    /\ call.cls = "SensitivityAtSpecificity" /\ call.task = "multilabel"
    /\ call.num_labels = ArgInt(NumClasses) /\ call.num_classes = ArgNone
    /\ call.instance = "MultilabelSensitivityAtSpecificity"
    /\ metric = "SensitivityAtSpecificity" /\ task = "multilabel"

\* C18: a task string that is none of the three tasks ends the call of either wrapper with
\* the ValueError "Invalid ..." of parsing the task: before any num_classes / num_labels
\* check, with no object built, and never with "Task ... not supported"
C18_InvalidTask ==
    /\ (Called /\ call.task \notin Tasks) =>
           /\ call.state = "raised"
           /\ call.raised = ValueError("Invalid", "ClassificationTask.from_str")
           /\ metric = "none" /\ call.instance = "none"
    /\ call.state = "raised" => call.raised.msg # "Task not supported!"

C18_Witness ==
    /\ call.state = "raised"
    /\ call.task = "not_valid_task"
    /\ call.num_classes = ArgNone /\ call.num_labels = ArgFloat(NumClasses)
    /\ call.raised.type = "ValueError" /\ call.raised.msg = "Invalid"

\* an argument that argument validation is to reject reaches the class of the task
RejectedArgument ==
    \/ /\ call.cls = "SensitivityAtSpecificity"
       /\ \/ QLess(One, call.min_specificity)
          \/ (call.thresholds.type = "int" /\ call.thresholds.value < 2)
    \/ /\ call.task # "binary"
       /\ CountGiven.type = "int" /\ CountGiven.value <= 0
    \/ /\ call.cls = "NegativePredictiveValue" /\ call.task = "multiclass"
       /\ CountGiven.type = "int" /\ call.top_k.type = "int"
       /\ call.average = "not_valid_average"
    \/ /\ call.cls = "NegativePredictiveValue" /\ call.task = "multilabel"
       /\ CountGiven.type = "int"
       /\ call.average = "not_valid_average"

C20_TypeChecks ==
    Called =>
        /\ (call.task = "multiclass" /\ call.num_classes.type # "int") =>
               /\ call.state = "raised" /\ metric = "none"
               /\ call.raised = ValueError("num_classes is expected to be int", "__new__")
        /\ (call.task = "multilabel" /\ call.num_labels.type # "int") =>
               /\ call.state = "raised" /\ metric = "none"
               /\ call.raised = ValueError("num_labels is expected to be int", "__new__")
        /\ (call.cls = "NegativePredictiveValue" /\ call.task = "multiclass"
                /\ call.top_k.type # "int") =>
               /\ call.state = "raised" /\ metric = "none"
               /\ call.raised.type = "ValueError" /\ call.raised.at = "__new__"
               /\ call.num_classes.type = "int" =>
                      call.raised.msg = "top_k is expected to be int"
        /\ call.task = "binary" =>
               /\ call.state = "raised" => call.raised.at # "__new__"
               /\ (call.cls = "NegativePredictiveValue" \/ WellFormedCall) =>
                      call.state = "returned"

C20_Witness ==
    /\ call.state = "raised"
    /\ call.cls = "NegativePredictiveValue" /\ call.task = "multiclass"
    /\ call.num_classes = ArgInt(NumClasses) /\ call.top_k = ArgNone
    /\ call.raised = ValueError("top_k is expected to be int", "__new__")
    /\ metric = "none"

SasClasses ==
    {"BinarySensitivityAtSpecificity", "MulticlassSensitivityAtSpecificity",
     "MultilabelSensitivityAtSpecificity"}

\* the thresholds argument has one of the four valid forms
ValidForm ==
    \/ call.thresholds = ArgNone
    \/ call.thresholds.type = "int" /\ call.thresholds.value > 1
    \/ /\ call.thresholds.type \in {"list", "tensor"}
       /\ \A j \in DOMAIN call.thresholds.values :
              QLeq(Zero, call.thresholds.values[j]) /\ QLeq(call.thresholds.values[j], One)

CurveStateOf(c) ==
    LET state == IF thresholds.is_none THEN <<_cat(preds), _cat(target)>> ELSE confmat
    IN  CASE task = "binary" -> state
          [] task = "multiclass" -> ClassState("multiclass", state, thresholds, c)
          [] OTHER -> LabelState(state, thresholds, ignore_index, c)

ScannedCurve(c) == _binary_roc_compute(CurveStateOf(c), thresholds)

\* the curve of the reference of the tests for class / label c
ScannedReference(c) ==
    LET view == BinaryView(task, ObservedPreds, ObservedTargets, c)
    IN  ReferenceCurve(view[1], view[2])

\* C23: for every accumulated state, binned or not, the curve that is scanned has three
\* sequences of one length and its false-positive rate never decreases along the curve,
\* that is as the threshold decreases; so has the curve of the reference of the tests
C23_CurveShape ==
    metric = "SensitivityAtSpecificity" =>
        \A c \in Classes(task) :
            /\ LET roc == ScannedCurve(c)
               IN  /\ Len(roc.fpr) = Len(roc.tpr) /\ Len(roc.tpr) = Len(roc.thresholds)
                   /\ Len(roc.fpr) = (IF thresholds.is_none
                                      THEN 1 + Cardinality({CurveStateOf(c)[1][i] :
                                                   i \in DOMAIN CurveStateOf(c)[1]})
                                      ELSE Len(thresholds.values))
                   /\ \A j, k \in DOMAIN roc.fpr :
                          j < k => /\ QLeq(roc.fpr[j], roc.fpr[k])
                                   /\ QLeq(roc.thresholds[k], roc.thresholds[j])
            /\ thresholds.is_none =>
                   LET ref == ScannedReference(c)
                   IN  /\ Len(ref.sensitivity) = Len(ref.specificity)
                       /\ Len(ref.specificity) = Len(ref.thresholds)
                       /\ \A j, k \in DOMAIN ref.specificity :
                              j < k => QLeq(ref.specificity[k], ref.specificity[j])

C23_Witness ==
    /\ metric = "SensitivityAtSpecificity" /\ task = "binary"
    /\ thresholds.is_none
    /\ LET roc == ScannedCurve(1)
       IN  /\ Len(roc.fpr) = 4
           /\ QLess(roc.fpr[2], roc.fpr[3]) /\ roc.fpr[3] = roc.fpr[4]
           /\ QLess(roc.tpr[3], roc.tpr[4])

\* a 2 x 2 table of counts
IsCells(x) == DOMAIN x = 1..2 /\ \A tg \in 1..2 : DOMAIN x[tg] = 1..2

\* the value the search gives for the state st alone
ComputedFrom(st) ==
    CASE task = "binary" ->
             LET r == _binary_sensitivity_at_specificity_compute(st, thresholds, min_specificity)
             IN  <<<<r[1]>>, <<r[2]>>>>
      [] task = "multiclass" ->
             _multiclass_sensitivity_at_specificity_compute(
                 st, NumClasses, thresholds, min_specificity)
      [] OTHER ->
             _multilabel_sensitivity_at_specificity_compute(
                 st, NumClasses, thresholds, ignore_index, min_specificity)

\* C24: the object keeps the one state its thresholds chose. With thresholds None every
\* update has appended its predictions and targets, confmat is never written and compute
\* reads the concatenation; otherwise the list states stay empty, confmat keeps the size
\* fixed by the number of thresholds (and classes / labels) and compute reads confmat alone
C24_OneState ==
    metric = "SensitivityAtSpecificity" =>
        IF thresholds.is_none
        THEN /\ confmat = <<>>
             /\ preds = [i \in DOMAIN observed |->
                            [k \in DOMAIN observed[i] |-> observed[i][k].p]]
             /\ target = [i \in DOMAIN observed |->
                             [k \in DOMAIN observed[i] |-> observed[i][k].t]]
             /\ CurveComputed => ret.v = ComputedFrom(<<_cat(preds), _cat(target)>>)
        ELSE /\ preds = <<>> /\ target = <<>>
             /\ Len(confmat) = Len(thresholds.values)
             /\ \A j \in DOMAIN confmat :
                    IF task = "binary" THEN IsCells(confmat[j])
                    ELSE /\ DOMAIN confmat[j] = 1..NumClasses
                         /\ \A c \in 1..NumClasses : IsCells(confmat[j][c])
             /\ CurveComputed => ret.v = ComputedFrom(confmat)

C24_Witness ==
    /\ CurveComputed /\ task = "multiclass"
    /\ ~thresholds.is_none
    /\ Len(observed) = 2
    /\ preds = <<>> /\ target = <<>>
    /\ Len(confmat) = 5
    /\ QLess(Zero, ret.v[1][1])

\* the batch the latest update was given
LatestBatch == observed'[Len(observed')]

\* the accumulated state after the step is the state before it with the latest batch added
AccumulatesOnTop ==
    IF metric = "NegativePredictiveValue"
    THEN /\ tp' = AddState(tp, StatRow(LatestBatch, TRUE, TRUE))
         /\ fp' = AddState(fp, StatRow(LatestBatch, TRUE, FALSE))
         /\ tn' = AddState(tn, StatRow(LatestBatch, FALSE, FALSE))
         /\ fn' = AddState(fn, StatRow(LatestBatch, FALSE, TRUE))
    ELSE LET kept == Formatted(LatestBatch)
             p == [i \in DOMAIN kept |-> kept[i].p]
             t == [i \in DOMAIN kept |-> kept[i].t]
         IN  IF thresholds.is_none
             THEN preds' = preds \o <<p>> /\ target' = target \o <<t>> /\ confmat' = confmat
             ELSE /\ confmat' = AddConfmat(task, confmat, BinCounts(task, p, t, thresholds))
                  /\ preds' = preds /\ target' = target

\* C25: compute only reads. A compute step leaves the accumulated counts, the stored
\* observations and the configuration as they were; a compute that directly follows a
\* compute returns the same value; an update that follows a compute adds its batch to the
\* state the compute has read
C25_ComputeReads ==
    [][/\ ret'.op = "compute" =>
              /\ UNCHANGED <<statScores, curveState, observed>>
              /\ UNCHANGED <<metric, npvConfig, sasConfig>>
       /\ (ret.op = "compute" /\ ret'.op = "compute") => ret' = ret
       /\ (ret.op = "compute" /\ ret'.op = "update") => AccumulatesOnTop]_vars

\* a value computed from a state that holds the batches of two updates
C25_Witness ==
    /\ ret.op = "compute"
    /\ Len(observed) = 2
    /\ \/ metric = "NegativePredictiveValue" /\ multidim_average = "global"
            /\ tn[1][1] + fn[1][1] + tp[1][1] + fp[1][1] > 1
       \/ metric = "SensitivityAtSpecificity" /\ thresholds.is_none /\ Len(preds) = 2

\* the orders in which n batches can be given
Orders(n) == {f \in [1..n -> 1..n] : \A i, j \in 1..n : f[i] = f[j] => i = j}

\* the batches given to update, taken in the order f
Reordered(f) == [i \in DOMAIN observed |-> observed[f[i]]]

RECURSIVE CountsAfter(_, _, _)

\* the count state the update calls with the batches obs, in this order, leave
CountsAfter(obs, P, T) ==
    IF obs = <<>> THEN InitialState(task, multidim_average)
    ELSE AddState(CountsAfter(SubSeq(obs, 1, Len(obs) - 1), P, T),
                  StatRow(obs[Len(obs)], P, T))

\* the value compute returns after those update calls
NPVAfter(obs) ==
    _negative_predictive_value_reduce(
        CountsAfter(obs, TRUE, TRUE), CountsAfter(obs, TRUE, FALSE),
        CountsAfter(obs, FALSE, FALSE), CountsAfter(obs, FALSE, TRUE),
        average, multidim_average, task = "multilabel", top_k)

RECURSIVE ConfmatAfter(_)

ConfmatAfter(obs) ==
    IF obs = <<>> THEN InitialConfmat(task, thresholds)
    ELSE LET kept == Formatted(obs[Len(obs)])
             p == [i \in DOMAIN kept |-> kept[i].p]
             t == [i \in DOMAIN kept |-> kept[i].t]
         IN  AddConfmat(task, ConfmatAfter(SubSeq(obs, 1, Len(obs) - 1)),
                        BinCounts(task, p, t, thresholds))

\* the curve state the update calls with the batches obs, in this order, leave
CurveAfter(obs) ==
    IF thresholds.is_none
    THEN LET all == _cat([i \in DOMAIN obs |-> Formatted(obs[i])])
         IN  <<[i \in DOMAIN all |-> all[i].p], [i \in DOMAIN all |-> all[i].t]>>
    ELSE ConfmatAfter(obs)

\* C26 as stated: whatever the order of the same update calls, compute returns the value
\* it has returned
C26_Original ==
    /\ Computed =>
           \A f \in Orders(Len(observed)) :
               NPVAfter(Reordered(f)) = [shape |-> ret.shape, v |-> ret.v]
    /\ CurveComputed =>
           \A f \in Orders(Len(observed)) :
               ComputedFrom(CurveAfter(Reordered(f))) = ret.v

\* C26: the (sensitivity, threshold) pair and the NPV under "global" do not depend on the
\* order of the update calls; under "samplewise" the value has one row per sample, and
\* the rows follow the order of the update calls
C26_OrderIndependent ==
    /\ Computed =>
           \A f \in Orders(Len(observed)) :
               LET value == NPVAfter(Reordered(f))
               IN  /\ value.shape = ret.shape
                   /\ value.v = IF multidim_average = "samplewise"
                                 THEN [i \in DOMAIN ret.v |-> ret.v[f[i]]]
                                 ELSE ret.v
    /\ CurveComputed =>
           \A f \in Orders(Len(observed)) :
               ComputedFrom(CurveAfter(Reordered(f))) = ret.v

\* samplewise values of two samples that differ, and a curve value of two batches that
\* differ
C26_Witness ==
    /\ Len(observed) = 2
    /\ observed[1] # observed[2]
    /\ \/ Computed /\ multidim_average = "samplewise" /\ ret.v[1] # ret.v[2]
       \/ Computed /\ multidim_average = "global" /\ QLess(Zero, ret.v[1][1])
       \/ CurveComputed /\ QLess(Zero, ret.v[1][1])

\* classes / labels of the returned pair
Entries == IF task = "binary" THEN {1} ELSE 1..NumClasses

\* the sensitivity the search returns for class c of the accumulated state, for every bound
SensitivityAt(c) ==
    [a \in MinSpecs(FALSE) |->
        _binary_sensitivity_at_specificity_compute(CurveStateOf(c), thresholds, a)[1]]

\* the same for the reference of the tests on the observations of class c
ReferenceSensitivityAt(c) ==
    LET view == BinaryView(task, ObservedPreds, ObservedTargets, c)
    IN  [a \in MinSpecs(FALSE) |->
            _sensitivity_at_specificity_x_multilabel(view[1], view[2], a)[1]]

\* f does not increase along the bounds
NonIncreasing(f) ==
    \A a, b \in DOMAIN f : QLeq(a, b) => QLeq(f[b], f[a])

\* C27: for a fixed accumulated state the returned sensitivity does not increase with
\* min_specificity: a <= b gives sensitivity(a) >= sensitivity(b), for the metric's search and
\* for the reference of the tests
C27_Monotone ==
    (metric = "SensitivityAtSpecificity" /\ observed # <<>>) =>
        \A c \in Entries :
            /\ NonIncreasing(SensitivityAt(c))
            /\ thresholds.is_none => NonIncreasing(ReferenceSensitivityAt(c))

\* a state whose sensitivity falls strictly as the bound rises from 0 to 1, and is that of
\* the empty selection beyond 1
C27_Witness ==
    /\ CurveComputed /\ task = "binary" /\ thresholds.is_none
    /\ LET f == SensitivityAt(1)
           g == ReferenceSensitivityAt(1)
       IN  /\ QLess(Zero, f[One]) /\ QLess(f[One], f[Zero])
           /\ f[Frac(MinSpecSteps + 1, MinSpecSteps)] = Zero
           /\ QLess(g[One], g[Zero])

\* q is a number of the interval [0, 1]
InUnitInterval(q) == QLeq(Zero, q) /\ QLeq(q, One)

\* C28: every value an NPV compute returns lies in [0, 1], whatever the averaging mode,
\* the multidim mode and the accumulated counts, zero denominators included
C28_UnitInterval ==
    Computed =>
        \A i \in DOMAIN ret.v : \A c \in DOMAIN ret.v[i] : InUnitInterval(ret.v[i][c])

\* a value strictly inside the interval next to a class without negatives, and the value 0
\* of counts whose denominators are all 0
C28_Witness ==
    /\ Computed
    /\ \/ /\ average = "macro" /\ multidim_average = "samplewise"
          /\ \E i \in Rows : /\ tn[i][1] + fn[i][1] = 0
                             /\ QLess(Zero, ret.v[i][1]) /\ QLess(ret.v[i][1], One)
       \/ /\ average = "weighted" /\ multidim_average = "global"
          /\ \A c \in DOMAIN tn[1] : tn[1][c] + fn[1][c] = 0
          /\ tp[1][1] > 0
          /\ ret.v[1][1] = Zero

\* the points of the curve of class c whose specificity meets min_specificity
QualifyingPoints(c) ==
    Qualifying(_convert_fpr_to_specificity(ScannedCurve(c).fpr), min_specificity)

Sentinel == FromInt(SentinelThreshold)

\* C29: a returned sensitivity lies in [0, 1]; the returned threshold is that of a point of
\* the curve with specificity >= min_specificity and the returned sensitivity, or it is the
\* sentinel 1e6; the sentinel comes with sensitivity 0 and only when no point qualifies, so
\* qualifying points that all have sensitivity 0 give 0 with a threshold of the curve
C29_ReturnedPair ==
    CurveComputed =>
        \A c \in Entries :
            LET sens == Entry(c)[1]
                thr == Entry(c)[2]
                roc == ScannedCurve(c)
                Q == QualifyingPoints(c)
            IN  /\ InUnitInterval(sens)
                /\ \/ thr = Sentinel
                   \/ \E j \in Q : roc.thresholds[j] = thr /\ roc.tpr[j] = sens
                /\ thr = Sentinel => (sens = Zero /\ Q = {})
                /\ (Q # {} /\ \A j \in Q : roc.tpr[j] = Zero) =>
                       (sens = Zero /\ \E j \in Q : roc.thresholds[j] = thr)

\* the sentinel returned for a bound no point meets
C29_Witness ==
    /\ CurveComputed
    /\ \E j \in DOMAIN _cat(target) : _cat(target)[j] = 1
    /\ QLess(One, min_specificity)
    /\ Entry(1) = <<Zero, Sentinel>>
    /\ QualifyingPoints(1) = {}

\* sensitivity 0 at a threshold of the curve: points qualify, none of them has a positive
ZeroOnCurve ==
    /\ CurveComputed
    /\ \E j \in DOMAIN _cat(target) : _cat(target)[j] = 1
    /\ QualifyingPoints(1) # {}
    /\ Entry(1)[1] = Zero
    /\ Entry(1)[2] # Sentinel

\* a direct call of one of the three classes has ended
Constructed == Called /\ call.cls \in SasClasses

\* thresholds and the number of classes / labels are arguments the parent can build its
\* state from
BuildableState == ValidForm /\ call.count \in {ArgNone, ArgInt(NumClasses)}

\* what the argument validation of the called class says about the arguments of the call
OwnValidation ==
    CASE call.cls = "BinarySensitivityAtSpecificity" ->
             _binary_sensitivity_at_specificity_arg_validation(
                 call.min_specificity, call.thresholds, IgnoreNone)
      [] call.cls = "MulticlassSensitivityAtSpecificity" ->
             _multiclass_sensitivity_at_specificity_arg_validation(
                 call.count, call.min_specificity, call.thresholds, IgnoreNone)
      [] OTHER ->
             _multilabel_sensitivity_at_specificity_arg_validation(
                 call.count, call.min_specificity, call.thresholds, IgnoreNone)

\* C30: the parent constructor runs with its validation off, so a validation error comes
\* from the class's own validation and only when validate_args is True; with
\* validate_args=False no min_specificity, in or out of [0, 1], ends the construction with a
\* validation error; with validate_args=True the outcome is that of the class's validation;
\* the object built has validate_args as given and min_specificity as given
C30_ValidateArgs ==
    Constructed =>
        /\ call.raised.at = "arg_validation" => call.validate_args
        /\ (~call.validate_args /\ BuildableState) =>
               (call.state = "returned" /\ call.raised = NoError)
        /\ (call.validate_args /\ BuildableState) => call.raised = OwnValidation
        /\ call.state = "returned" =>
               /\ validate_args = call.validate_args
               /\ min_specificity = call.min_specificity

\* an object built without validation that holds a min_specificity above 1
C30_Witness ==
    /\ call.state = "returned"
    /\ call.cls = "MulticlassSensitivityAtSpecificity"
    /\ ~call.validate_args /\ ~validate_args
    /\ QLess(One, call.min_specificity)
    /\ min_specificity = call.min_specificity
    /\ metric = "SensitivityAtSpecificity"

====
